---------------------------- MODULE Spec2Model ----------------------------
(***************************************************************************)
(* Adams-Bashforth / Adams-Moulton predictor-corrector pair of orders 12,  *)
(* 16 and 20 (adams_12_steps.c, adams_16_steps.c, adams_20_steps.c).        *)
(*                                                                         *)
(* Numbers.  The C code computes in double.  Here every double is an exact *)
(* number: the coefficient tables, the values of f and h are integers, and *)
(* a value of y is counted in units of `divisor', i.e. the number Y stands *)
(* for the real Y * divisor.  With that unit                               *)
(*      y + h * divisor * delta      is      Y + h * delta                 *)
(* and the constant 1.0 is the reciprocal of divisor.  The tables hold     *)
(* numbers above 2^31, so a table entry and a value of y is kept as a sign *)
(* and a magnitude of base-10^4 limbs, least significant limb first; the   *)
(* values of f, small integers, are kept as they are.  Rounding of double  *)
(* arithmetic is not modelled.                                             *)
(***************************************************************************)
EXTENDS Integers, Sequences, FiniteSets, TLC

-----------------------------------------------------------------------------
(* Exact integer arithmetic standing for the double operators + - * < fabs *)

Base == 10^4

RECURSIVE Strip(_)
Strip(m) ==
  IF m /= <<>> /\ m[Len(m)] = 0 THEN Strip(SubSeq(m, 1, Len(m) - 1)) ELSE m

\* a sequence given by its entries, as the tuple of them
Tuple(s) == <<>> \o s

Reverse(s) == Tuple([j \in 1..Len(s) |-> s[Len(s) + 1 - j]])

Limb(v, j) == IF j <= Len(v) THEN v[j] ELSE 0

Max(a, b) == IF a < b THEN b ELSE a

Min(a, b) == IF a < b THEN a ELSE b

Num(neg, mag) == [neg |-> neg /\ mag /= <<>>, mag |-> mag]

\* A literal, written as its decimal digits in groups of four, most
\* significant group first (a group's leading zeros are not written).
Pos(groups) == [neg |-> FALSE, mag |-> Reverse(groups)]
Neg(groups) == [neg |-> TRUE, mag |-> Reverse(groups)]

Zero == Num(FALSE, <<>>)

RECURSIVE MagOfNat(_)
MagOfNat(n) == IF n = 0 THEN <<>> ELSE <<n % Base>> \o MagOfNat(n \div Base)

\* the double of a small integer
Dbl(n) == IF n < 0 THEN Num(TRUE, MagOfNat(-n)) ELSE Num(FALSE, MagOfNat(n))

\* A number as a vector of signed limbs.  Sums and small multiples are taken
\* limb by limb; Canon propagates the carries and finds the sign.
Limbs(a) ==
  IF a.neg THEN Tuple([j \in 1..Len(a.mag) |-> -a.mag[j]]) ELSE a.mag

VecAdd(u, v) ==
  Tuple([j \in 1..Max(Len(u), Len(v)) |-> Limb(u, j) + Limb(v, j)])

VecScale(u, n) == Tuple([j \in 1..Len(u) |-> u[j] * n])

RECURSIVE VecDot(_, _, _, _)
VecDot(u, v, j, k) ==
  IF k > Min(j, Len(u)) THEN 0
  ELSE u[k] * v[j + 1 - k] + VecDot(u, v, j, k + 1)

VecMul(u, v) ==
  Tuple([j \in 1..(Len(u) + Len(v) - 1) |->
           VecDot(u, v, j, Max(1, j + 1 - Len(v)))])

\* the limbs 0..Base-1 of the vector from limb j on, then the last carry
RECURSIVE Carries(_, _, _)
Carries(u, j, carry) ==
  IF j > Len(u)
  THEN <<carry>>
  ELSE LET t == u[j] + carry
       IN  <<t % Base>> \o Carries(u, j + 1, t \div Base)

MagOfCarries(n) == Strip(SubSeq(n, 1, Len(n) - 1) \o MagOfNat(n[Len(n)]))

Canon(u) ==
  LET n == Carries(u, 1, 0)
  IN  IF n[Len(n)] < 0
      THEN Num(TRUE, MagOfCarries(Carries(VecScale(u, -1), 1, 0)))
      ELSE Num(FALSE, MagOfCarries(n))

fabs(a) == Num(FALSE, a.mag)

Plus(a, b) ==
  IF a.mag = <<>> THEN b
  ELSE IF b.mag = <<>> THEN a
  ELSE Canon(VecAdd(Limbs(a), Limbs(b)))

Sub(a, b) ==
  IF b.mag = <<>> THEN a
  ELSE IF a.mag = <<>> THEN Num(~b.neg, b.mag)
  ELSE Canon(VecAdd(Limbs(a), VecScale(Limbs(b), -1)))

Times(a, b) ==
  IF a.mag = <<>> \/ b.mag = <<>> THEN Zero
  ELSE Canon(VecMul(Limbs(a), Limbs(b)))

\* a * n for a small integer n
Scale(a, n) ==
  IF a.mag = <<>> \/ n = 0 THEN Zero ELSE Canon(VecScale(Limbs(a), n))

\* acc + c * n on limb vectors, for a table entry c and a small integer n
MulAdd(acc, c, n) ==
  LET m == IF c.neg THEN -n ELSE n
  IN  IF acc = <<>> THEN VecScale(c.mag, m)
      ELSE Tuple([j \in 1..Max(Len(acc), Len(c.mag)) |->
                    Limb(acc, j) + Limb(c.mag, j) * m])

Less(a, b) == Sub(a, b).neg

Greater(a, b) == Less(b, a)

-----------------------------------------------------------------------------
(* The coefficient tables and divisors of the three files, each table a    *)
(* tuple in the order of the initialiser list.                             *)

bashforth_12 ==
  <<Pos(<<45, 2776, 6399>>),
     Neg(<<194, 3381, 163>>),
     Pos(<<616, 3322, 7185>>),
     Neg(<<1355, 7935, 6757>>),
     Pos(<<2141, 3935, 5366>>),
     Neg(<<2477, 4163, 9374>>),
     Pos(<<2111, 357, 3298>>),
     Neg(<<1313, 6586, 7290>>),
     Pos(<<581, 8910, 7627>>),
     Neg(<<174, 1024, 8271>>),
     Pos(<<31, 5864, 2445>>),
     Neg(<<2, 6274, 7265>>)>>

moulton_12 ==
  <<Pos(<<2, 6274, 7265>>),
     Pos(<<13, 7479, 9219>>),
     Neg(<<20, 9249, 673>>),
     Pos(<<38, 2882, 8885>>),
     Neg(<<55, 1946, 582>>),
     Pos(<<60, 4352, 1486>>),
     Neg(<<49, 6316, 6514>>),
     Pos(<<30, 773, 9418>>),
     Neg(<<13, 597, 1115>>),
     Pos(<<3, 8470, 9327>>),
     Neg(<<6892, 8781>>),
     Pos(<<567, 5265>>)>>

reciprocal_12 == Pos(<<9, 5800, 3200>>)

bashforth_16 ==
  <<Pos(<<362, 5551, 2642, 7073>>),
     Neg(<<2161, 5676, 7124, 8849>>),
     Pos(<<9622, 969, 951, 5337>>),
     Neg(<<3, 607, 3738, 6052, 569>>),
     Pos(<<7, 2558, 1170, 7225, 9733>>),
     Neg(<<13, 1963, 1919, 4082, 8581>>),
     Pos(<<18, 7463, 1401, 1290, 2893>>),
     Neg(<<21, 20, 5889, 1232, 1949>>),
     Pos(<<18, 6087, 5442, 6359, 6643>>),
     Neg(<<12, 9930, 941, 423, 7331>>),
     Pos(<<7, 724, 3515, 8284, 3483>>),
     Neg(<<2, 9417, 9109, 1125, 1819>>),
     Pos(<<9038, 5717, 5273, 4087>>),
     Neg(<<1934, 4431, 9689, 2599>>),
     Pos(<<257, 6502, 7591, 5823>>),
     Neg(<<16, 881, 2922, 9375>>)>>

moulton_16 ==
  <<Pos(<<16, 881, 2922, 9375>>),
     Pos(<<105, 1450, 5875, 7073>>),
     Neg(<<230, 9921, 6372, 3849>>),
     Pos(<<612, 7445, 4106, 5337>>),
     Neg(<<1326, 9786, 6305, 8069>>),
     Pos(<<2285, 1685, 9834, 9733>>),
     Neg(<<3129, 4530, 7199, 3581>>),
     Pos(<<3414, 9417, 2885, 2893>>),
     Neg(<<2966, 3657, 3026, 5699>>),
     Pos(<<2039, 3458, 7954, 6643>>),
     Neg(<<1096, 3552, 3540, 2331>>),
     Pos(<<451, 4031, 893, 3483>>),
     Neg(<<137, 5157, 1378, 9319>>),
     Pos(<<29, 2193, 8428, 4087>>),
     Neg(<<3, 8676, 8936, 7599>>),
     Pos(<<2402, 824, 5823>>)>>

reciprocal_16 == Pos(<<62, 7683, 6966, 4000>>)

bashforth_20 ==
  <<Pos(<<6, 9166, 8239, 1572, 2210, 7697>>),
     Neg(<<52, 9284, 3584, 9612, 5293, 3125>>),
     Pos(<<303, 4949, 2858, 247, 2768, 6755>>),
     Neg(<<1263, 4654, 4855, 9278, 5613, 4295>>),
     Pos(<<3995, 3730, 7669, 8421, 5099, 6468>>),
     Neg(<<9911, 6845, 545, 1350, 7083, 5076>>),
     Pos(<<1, 9716, 2902, 8083, 7988, 4575, 380>>),
     Neg(<<3, 1910, 6538, 8846, 3186, 7954, 4380>>),
     Pos(<<4, 2416, 1433, 1208, 1499, 4715, 1790>>),
     Neg(<<4, 6543, 2646, 8801, 4788, 9440, 6214>>),
     Pos(<<4, 2227, 5687, 9776, 3540, 6559, 3786>>),
     Neg(<<3, 1618, 2108, 9800, 1865, 3924, 8210>>),
     Pos(<<1, 9430, 1881, 8982, 23, 9565, 5620>>),
     Neg(<<9703, 5019, 1086, 5313, 6864, 9620>>),
     Pos(<<3877, 3978, 7034, 6990, 9236, 4924>>),
     Neg(<<1210, 5960, 1023, 9854, 3300, 3532>>),
     Pos(<<284, 6203, 2496, 4763, 1666, 5705>>),
     Neg(<<47, 4033, 5757, 937, 1071, 3245>>),
     Pos(<<4, 9866, 9220, 9566, 4786, 6875>>),
     Neg(<<2491, 9383, 4991, 8749, 2303>>)>>

moulton_20 ==
  <<Pos(<<2491, 9383, 4991, 8749, 2303>>),
     Pos(<<1, 9328, 569, 1734, 7226, 1637>>),
     Neg(<<5, 5816, 720, 1156, 2939, 5555>>),
     Pos(<<19, 4139, 5668, 9509, 8646, 1335>>),
     Neg(<<56, 1213, 1802, 3644, 5592, 6260>>),
     Pos(<<131, 8718, 5898, 4392, 7033, 756>>),
     Neg(<<252, 9314, 6116, 6278, 6917, 796>>),
     Pos(<<398, 7841, 9226, 7844, 4242, 1820>>),
     Neg(<<519, 7064, 9453, 6702, 7413, 5470>>),
     Pos(<<561, 5467, 8684, 6187, 3993, 9910>>),
     Neg(<<503, 2085, 1025, 5945, 6647, 3146>>),
     Pos(<<372, 9722, 7252, 8228, 5838, 1906>>),
     Neg(<<227, 2635, 407, 5381, 3383, 9300>>),
     Pos(<<112, 6821, 124, 9879, 9232, 7060>>),
     Neg(<<44, 7488, 6658, 241, 6698, 5340>>),
     Pos(<<13, 8966, 5263, 2962, 1169, 9212>>),
     Neg(<<3, 2518, 7970, 4220, 3279, 5497>>),
     Pos(<<5393, 5307, 4025, 7544, 285>>),
     Neg(<<565, 2892, 2480, 8717, 5675>>),
     Pos(<<28, 1550, 9728, 9802, 815>>)>>

reciprocal_20 == Pos(<<1, 218, 1884, 3434, 1888, 0>>)

-----------------------------------------------------------------------------
(* Bounds of the model *)

MaxH == 2            \* step sizes h are 1..MaxH
MaxIterations == 3   \* iteration budgets are -1..MaxIterations
MaxCalls == 2        \* calls of the step driver and the corrector per run

-----------------------------------------------------------------------------
VARIABLES
  order,         \* which file: 12, 16 or 20
  f,             \* the derivative callable the caller passes
  h,             \* step size
  tolerance,     \* corrector tolerance, in units of divisor
  iterations,    \* corrector iteration budget
  y,             \* the caller's array y[0], y[1]
  x0,            \* abscissa of y[0]
  f_history,     \* the caller's history array, STEPS entries
  y_bashforth,   \* the cell *y_bashforth
  y_known,       \* the array y[] handed to Build_History
  pc,            \* position of the running function, "idle" or "ret" in the caller
  i,             \* loop counter of the running function
  x,             \* parameter x of the corrector and of Build_History
  delta,         \* local delta of the corrector
  old_estimate,  \* local old_estimate of the corrector
  ret,           \* value returned by the last call
  callee,        \* function called last: "none", "steps", "moulton", "build"
  calls,         \* calls of the step driver and of the corrector so far
  built,         \* Build_History has returned
  traj,          \* the trajectory the caller knows: abscissa -> y
  hist_in,       \* f_history on entry of the current call
  y_in,          \* y on entry of the current call
  rel_in,        \* HistoryRelation on entry of the current call
  log            \* f calls, array reads and writes of the current call

vars == <<order, f, h, tolerance, iterations, y, x0, f_history, y_bashforth,
          y_known, pc, i, x, delta, old_estimate, ret, callee, calls, built,
          traj, hist_in, y_in, rel_in, log>>

config == <<order, f, h, tolerance, iterations, y_known>>

-----------------------------------------------------------------------------
(* The file's static data *)

bashforth_table ==
  CASE order = 12 -> bashforth_12 [] order = 16 -> bashforth_16
    [] order = 20 -> bashforth_20

moulton_table ==
  CASE order = 12 -> moulton_12 [] order = 16 -> moulton_16
    [] order = 20 -> moulton_20

\* bashforth[j] and moulton[j], j counted from 0 as in C
bashforth(j) == bashforth_table[j + 1]

moulton(j) == moulton_table[j + 1]

\* 1.0 / divisor, which is the number 1.0 in units of divisor
reciprocal ==
  CASE order = 12 -> reciprocal_12 [] order = 16 -> reciprocal_16
    [] order = 20 -> reciprocal_20

One == reciprocal

\* Variant of STEPS: the count of the order 12 table, in every file
STEPS_Twelve == Len(bashforth_12)

\* sizeof(bashforth)/sizeof(bashforth[0])
STEPS == Len(bashforth_table)

-----------------------------------------------------------------------------
(* The derivative callable: a pure function of (x, y).  The callables the  *)
(* model passes return small integers: f = 0, f = x, and a relay that is 1 *)
(* below y = 1.0 and -1 from there on.                                     *)

Callables == {"zero", "abscissa", "relay"}

Call(fn, xv, yv) ==
  CASE fn = "zero" -> 0
    [] fn = "abscissa" -> xv
    [] fn = "relay" -> IF Less(yv, One) THEN 1 ELSE -1

Ev(op, at, val) == [op |-> op, at |-> at, val |-> val]

-----------------------------------------------------------------------------
(* hasConverged.  epsilon * fabs(y1) is counted in units of divisor^2, and *)
(* so is the difference it is compared with.                               *)

\* Variant of hasConvergedIn: the difference may equal the bound, <= epsilon
hasConvergedInclusive(one, y0v, y1v, epsilon) ==
  IF Greater(fabs(y0v), one) /\ Greater(fabs(y1v), one)
  THEN ~Less(Times(epsilon, fabs(y1v)), Times(fabs(Sub(y0v, y1v)), one))
  ELSE ~Less(epsilon, fabs(Sub(y0v, y1v)))

\* the body of hasConverged, 1.0 being `one` units of its arguments
hasConvergedIn(one, y0v, y1v, epsilon) ==
  IF Greater(fabs(y0v), one) /\ Greater(fabs(y1v), one)
  THEN Less(Times(fabs(Sub(y0v, y1v)), one), Times(epsilon, fabs(y1v)))
  ELSE Less(fabs(Sub(y0v, y1v)), epsilon)

hasConverged(y0v, y1v, epsilon) == hasConvergedIn(One, y0v, y1v, epsilon)

-----------------------------------------------------------------------------
(* Adams_Bashforth_<k>_Steps *)

\* the locals of a summing loop when it starts: i, n, delta = 0.0, and the
\* reads of f_history made so far
Locals(iv, n) == [i |-> iv, n |-> n, delta |-> <<>>, log |-> <<>>]

\* Variant of BashforthLoop: bashforth[i] is paired with f_history[i]
RECURSIVE BashforthLoopForward(_, _)
BashforthLoopForward(s, hist) ==
  IF s.i < STEPS
  THEN BashforthLoopForward(
         [i |-> s.i + 1, n |-> s.n - 1,
          delta |-> MulAdd(s.delta, bashforth(s.i), hist[s.i]),
          log |-> Append(s.log, Ev("rd_hist", s.i, Dbl(hist[s.i])))], hist)
  ELSE [delta |-> Canon(s.delta), log |-> s.log]

\* for (i = 0; i < STEPS; i++, n--) delta += bashforth[i] * f_history[n];
RECURSIVE BashforthLoop(_, _)
BashforthLoop(s, hist) ==
  IF s.i < STEPS
  THEN BashforthLoop(
         [i |-> s.i + 1, n |-> s.n - 1,
          delta |-> MulAdd(s.delta, bashforth(s.i), hist[s.n]),
          log |-> Append(s.log, Ev("rd_hist", s.n, Dbl(hist[s.n])))], hist)
  ELSE [delta |-> Canon(s.delta), log |-> s.log]

\* int n = STEPS - 1;
BashforthStart == STEPS - 1

\* Variant of Adams_Bashforth_Steps: h * divisor * delta is returned, without y
Adams_Bashforth_Increment(yv, hv, hist) ==
  LET r == BashforthLoop(Locals(0, BashforthStart), hist)
  IN  [value |-> Scale(r.delta, hv), log |-> r.log]

\* the value returned, with the reads of f_history in the order made
Adams_Bashforth_Steps(yv, hv, hist) ==
  LET r == BashforthLoop(Locals(0, BashforthStart), hist)
  IN  [value |-> Plus(yv, Scale(r.delta, hv)), log |-> r.log]

-----------------------------------------------------------------------------
(* Adams_Moulton_<k-1>_Steps *)

\* for (i = 1; i < STEPS; i++, n--) delta += moulton[i] * f_history[n];
RECURSIVE MoultonLoop(_, _)
MoultonLoop(s, hist) ==
  IF s.i < STEPS
  THEN MoultonLoop(
         [i |-> s.i + 1, n |-> s.n - 1,
          delta |-> MulAdd(s.delta, moulton(s.i), hist[s.n]),
          log |-> Append(s.log, Ev("rd_hist", s.n, Dbl(hist[s.n])))], hist)
  ELSE [delta |-> Canon(s.delta), log |-> s.log]

\* Variant of MoultonStart: the sum starts at the newest entry, n = STEPS - 1
MoultonStartNewest == STEPS - 1

\* int n = STEPS - 2;
MoultonStart == STEPS - 2

\* y[0] + h * divisor * ( moulton(0) * (*f)(x, y[1]) + delta )
MoultonEstimate(y0v, hv, fv, dv) ==
  Plus(y0v, Scale(Canon(MulAdd(Limbs(dv), moulton(0), fv)), hv))

-----------------------------------------------------------------------------
(* The shift loop of Adams_<k>_Steps *)

\* Variant of ShiftLoop: the loop stops one entry early, i < STEPS - 2
RECURSIVE ShiftLoopShort(_, _, _)
ShiftLoopShort(iv, hist, lg) ==
  IF iv < STEPS - 2
  THEN ShiftLoopShort(iv + 1, [hist EXCEPT ![iv] = hist[iv + 1]],
                      lg \o <<Ev("rd_hist", iv + 1, Dbl(hist[iv + 1])),
                              Ev("wr_hist", iv, Dbl(hist[iv + 1]))>>)
  ELSE [hist |-> hist, log |-> lg]

\* Variant of ShiftLoop: entries are copied upwards, f_history[i+1] = f_history[i]
RECURSIVE ShiftLoopUp(_, _, _)
ShiftLoopUp(iv, hist, lg) ==
  IF iv < STEPS - 1
  THEN ShiftLoopUp(iv + 1, [hist EXCEPT ![iv + 1] = hist[iv]],
                   lg \o <<Ev("rd_hist", iv, Dbl(hist[iv])),
                           Ev("wr_hist", iv + 1, Dbl(hist[iv]))>>)
  ELSE [hist |-> hist, log |-> lg]

\* for (i = 0; i < STEPS - 1; i++) f_history[i] = f_history[i+1];
RECURSIVE ShiftLoop(_, _, _)
ShiftLoop(iv, hist, lg) ==
  IF iv < STEPS - 1
  THEN ShiftLoop(iv + 1, [hist EXCEPT ![iv] = hist[iv + 1]],
                 lg \o <<Ev("rd_hist", iv + 1, Dbl(hist[iv + 1])),
                         Ev("wr_hist", iv, Dbl(hist[iv + 1]))>>)
  ELSE [hist |-> hist, log |-> lg]

-----------------------------------------------------------------------------
(* What the caller may pass *)

Orders == {12, 16, 20}

Tolerances(k) ==
  LET one == CASE k = 12 -> reciprocal_12 [] k = 16 -> reciprocal_16
               [] k = 20 -> reciprocal_20
  IN  {Zero, Dbl(1), one}

HistoryInputs(k) ==
  { [j \in 0..(k - 1) |-> 0],
    [j \in 0..(k - 1) |-> j + 1] }

TrajectoryInputs(k) ==
  LET one == CASE k = 12 -> reciprocal_12 [] k = 16 -> reciprocal_16
               [] k = 20 -> reciprocal_20
  IN  { [j \in 0..(k - 1) |-> Dbl(5)],
        [j \in 0..(k - 1) |-> Times(Dbl(j), one)] }

Scratch == Dbl(7)

\* f_history[i] holds f at the grid point x0 - (STEPS-1-i)*h, i = 0..STEPS-2
HistoryRelation ==
  \A j \in 0..(STEPS - 2) :
     LET xv == x0 - (STEPS - 1 - j) * h
     IN  xv \in DOMAIN traj /\ f_history[j] = Call(f, xv, traj[xv])

\* the state when the caller has set up its arrays, its tolerance being one
\* of tols[order]
InitWith(tols) ==
  /\ order \in Orders
  /\ f \in Callables
  /\ h \in 1..MaxH
  /\ tolerance \in tols[order]
  /\ iterations \in (-1)..MaxIterations
  /\ f_history \in HistoryInputs(order)
  /\ y_known \in TrajectoryInputs(order)
  /\ traj = [xv \in {j * h : j \in 0..(order - 1)} |-> y_known[xv \div h]]
  /\ x0 = (order - 1) * h
  /\ y = [j \in 0..1 |-> IF j = 0 THEN y_known[order - 1] ELSE Scratch]
  /\ y_bashforth = Scratch
  /\ pc = "idle"
  /\ i = 0
  /\ x = 0
  /\ delta = Zero
  /\ old_estimate = Zero
  /\ ret = 0
  /\ callee = "none"
  /\ calls = 0
  /\ built = FALSE
  /\ hist_in = f_history
  /\ y_in = y
  /\ rel_in = FALSE
  /\ log = <<>>

Init == InitWith([k \in Orders |-> Tolerances(k)])

-----------------------------------------------------------------------------
(* Adams_<k>_Steps *)

\* Variant of Steps_Evaluate_Upto: the value of f is stored at index 0
Steps_Evaluate_Oldest(n) ==
  /\ pc = "idle"
  /\ calls < n
  /\ LET fv == Call(f, x0, y[0])
     IN  /\ f_history' = [f_history EXCEPT ![0] = fv]
         /\ log' = <<Ev("rd_y", 0, y[0]), Ev("f", x0, y[0]),
                     Ev("wr_hist", 0, Dbl(fv))>>
  /\ pc' = "predict"
  /\ callee' = "steps"
  /\ calls' = calls + 1
  /\ hist_in' = f_history
  /\ y_in' = y
  /\ rel_in' = HistoryRelation
  /\ UNCHANGED <<config, y, x0, y_bashforth, i, x, delta, old_estimate, ret,
                 built, traj>>

\* f_history[STEPS-1] = (*f)(x0, y[0]); in a run of at most n calls
Steps_Evaluate_Upto(n) ==
  /\ pc = "idle"
  /\ calls < n
  /\ LET fv == Call(f, x0, y[0])
     IN  /\ f_history' = [f_history EXCEPT ![STEPS - 1] = fv]
         /\ log' = <<Ev("rd_y", 0, y[0]), Ev("f", x0, y[0]),
                     Ev("wr_hist", STEPS - 1, Dbl(fv))>>
  /\ pc' = "predict"
  /\ callee' = "steps"
  /\ calls' = calls + 1
  /\ hist_in' = f_history
  /\ y_in' = y
  /\ rel_in' = HistoryRelation
  /\ UNCHANGED <<config, y, x0, y_bashforth, i, x, delta, old_estimate, ret,
                 built, traj>>

Steps_Evaluate == Steps_Evaluate_Upto(MaxCalls)

\* Variant of Steps_Predict: the predictor is given the buffer as the shift
\* will leave it
Steps_Predict_Shifted ==
  /\ pc = "predict"
  /\ LET r == Adams_Bashforth_Steps(y[0], h, ShiftLoop(0, f_history, <<>>).hist)
     IN  /\ y_bashforth' = r.value
         /\ log' = log \o <<Ev("rd_y", 0, y[0])>> \o r.log
                       \o <<Ev("wr_yb", 0, r.value)>>
  /\ pc' = "shift"
  /\ UNCHANGED <<config, y, x0, f_history, i, x, delta, old_estimate, ret,
                 callee, calls, built, traj, hist_in, y_in, rel_in>>

\* Variant of Steps_Predict: the predictor is given the history as it was on
\* entry, without the sample just evaluated
Steps_Predict_Stale ==
  /\ pc = "predict"
  /\ LET r == Adams_Bashforth_Steps(y[0], h, hist_in)
     IN  /\ y_bashforth' = r.value
         /\ log' = log \o <<Ev("rd_y", 0, y[0])>> \o r.log
                       \o <<Ev("wr_yb", 0, r.value)>>
  /\ pc' = "shift"
  /\ UNCHANGED <<config, y, x0, f_history, i, x, delta, old_estimate, ret,
                 callee, calls, built, traj, hist_in, y_in, rel_in>>

\* *y_bashforth = Adams_Bashforth_<k>_Steps( y[0], h, f_history );
Steps_Predict ==
  /\ pc = "predict"
  /\ LET r == Adams_Bashforth_Steps(y[0], h, f_history)
     IN  /\ y_bashforth' = r.value
         /\ log' = log \o <<Ev("rd_y", 0, y[0])>> \o r.log
                       \o <<Ev("wr_yb", 0, r.value)>>
  /\ pc' = "shift"
  /\ UNCHANGED <<config, y, x0, f_history, i, x, delta, old_estimate, ret,
                 callee, calls, built, traj, hist_in, y_in, rel_in>>

\* for (i = 0; i < STEPS - 1; i++) f_history[i] = f_history[i+1];
Steps_Shift ==
  /\ pc = "shift"
  /\ LET r == ShiftLoop(0, f_history, <<>>)
     IN  /\ f_history' = r.hist
         /\ log' = log \o r.log
  /\ i' = STEPS - 1
  /\ pc' = "correct"
  /\ UNCHANGED <<config, y, x0, y_bashforth, x, delta, old_estimate, ret,
                 callee, calls, built, traj, hist_in, y_in, rel_in>>

\* Variant of Steps_Correct: the prediction is stored in y[0] as well
Steps_Correct_Both ==
  /\ pc = "correct"
  /\ y' = [j \in 0..1 |-> y_bashforth]
  /\ log' = log \o <<Ev("rd_yb", 0, y_bashforth), Ev("wr_y", 0, y_bashforth),
                      Ev("wr_y", 1, y_bashforth)>>
  /\ x' = x0 + h
  /\ pc' = "moulton"
  /\ UNCHANGED <<config, x0, f_history, y_bashforth, i, delta, old_estimate,
                 ret, callee, calls, built, traj, hist_in, y_in, rel_in>>

\* y[1] = *y_bashforth; return Adams_Moulton_<k-1>_Steps( f, y, x0+h, ... );
Steps_Correct ==
  /\ pc = "correct"
  /\ y' = [y EXCEPT ![1] = y_bashforth]
  /\ log' = log \o <<Ev("rd_yb", 0, y_bashforth), Ev("wr_y", 1, y_bashforth)>>
  /\ x' = x0 + h
  /\ pc' = "moulton"
  /\ UNCHANGED <<config, x0, f_history, y_bashforth, i, delta, old_estimate,
                 ret, callee, calls, built, traj, hist_in, y_in, rel_in>>

-----------------------------------------------------------------------------
(* Adams_Moulton_<k-1>_Steps *)

\* the caller calls the corrector itself, with its own estimate in y[1]
Moulton_Call ==
  /\ pc = "idle"
  /\ calls < MaxCalls
  /\ x' = x0 + h
  /\ pc' = "moulton"
  /\ callee' = "moulton"
  /\ calls' = calls + 1
  /\ hist_in' = f_history
  /\ y_in' = y
  /\ rel_in' = HistoryRelation
  /\ log' = <<>>
  /\ UNCHANGED <<config, y, x0, f_history, y_bashforth, i, delta,
                 old_estimate, ret, built, traj>>

\* for (i = 1; i < STEPS; i++, n--) delta += moulton[i] * f_history[n];
Moulton_Delta ==
  /\ pc = "moulton"
  /\ LET r == MoultonLoop(Locals(1, MoultonStart), f_history)
     IN  /\ delta' = r.delta
         /\ log' = log \o r.log
  /\ i' = 0
  /\ pc' = "iterate"
  /\ UNCHANGED <<config, y, x0, f_history, y_bashforth, x, old_estimate, ret,
                 callee, calls, built, traj, hist_in, y_in, rel_in>>

\* Variant of InBudget: the loop test written i <= iterations
InBudgetInclusive == i <= iterations

\* the loop test of for (i = 0; i < iterations; i++)
InBudget == i < iterations

\* Variant of Moulton_Iterate: no break, the loop goes on after hasConverged
\* has held
Moulton_Iterate_NoBreak ==
  /\ pc = "iterate"
  /\ InBudget
  /\ LET fv == Call(f, x, y[1])
         est == MoultonEstimate(y[0], h, fv, delta)
         conv == hasConverged(y[1], est, tolerance)
     IN  /\ old_estimate' = y[1]
         /\ y' = [y EXCEPT ![1] = est]
         /\ log' = log \o <<Ev("rd_y", 1, y[1]), Ev("f", x, y[1]),
                             Ev("rd_y", 0, y[0]), Ev("wr_y", 1, est),
                             Ev("conv", IF conv THEN 1 ELSE 0, est)>>
  /\ pc' = "iterate"
  /\ i' = i + 1
  /\ UNCHANGED <<config, x0, f_history, y_bashforth, x, delta, ret, callee,
                 calls, built, traj, hist_in, y_in, rel_in>>

\* one pass of the body of for (i = 0; i < iterations; i++) { ... }
Moulton_Iterate ==
  /\ pc = "iterate"
  /\ InBudget
  /\ LET fv == Call(f, x, y[1])
         est == MoultonEstimate(y[0], h, fv, delta)
         conv == hasConverged(y[1], est, tolerance)
     IN  /\ old_estimate' = y[1]
         /\ y' = [y EXCEPT ![1] = est]
         /\ log' = log \o <<Ev("rd_y", 1, y[1]), Ev("f", x, y[1]),
                             Ev("rd_y", 0, y[0]), Ev("wr_y", 1, est),
                             Ev("conv", IF conv THEN 1 ELSE 0, est)>>
         /\ IF conv
            THEN pc' = "break" /\ i' = i
            ELSE pc' = "iterate" /\ i' = i + 1
  /\ UNCHANGED <<config, x0, f_history, y_bashforth, x, delta, ret, callee,
                 calls, built, traj, hist_in, y_in, rel_in>>

\* Variant of Returned: the loop counter itself is returned
ReturnedCounter == i

\* the value of return i+1;
Returned == i + 1

\* Variant of Moulton_Return: a corrector that has not converged puts the
\* history back as it was on entry
Moulton_Return_Rollback ==
  /\ \/ pc = "break"
     \/ pc = "iterate" /\ ~InBudget
  /\ ret' = Returned
  /\ f_history' = IF pc = "break" THEN f_history ELSE hist_in
  /\ pc' = "ret"
  /\ UNCHANGED <<config, y, x0, y_bashforth, i, x, delta, old_estimate,
                 callee, calls, built, traj, hist_in, y_in, rel_in, log>>

\* Variant of Moulton_Return: a corrector that has not converged puts the
\* estimate of the iteration before back in y[1]
Moulton_Return_Restore ==
  /\ \/ pc = "break"
     \/ pc = "iterate" /\ ~InBudget
  /\ ret' = Returned
  /\ y' = IF pc = "break" \/ i = 0 THEN y ELSE [y EXCEPT ![1] = old_estimate]
  /\ pc' = "ret"
  /\ UNCHANGED <<config, x0, f_history, y_bashforth, i, x, delta,
                 old_estimate, callee, calls, built, traj, hist_in, y_in,
                 rel_in, log>>

\* return i+1; after the break or after the loop test fails
Moulton_Return ==
  /\ \/ pc = "break"
     \/ pc = "iterate" /\ ~InBudget
  /\ ret' = Returned
  /\ pc' = "ret"
  /\ UNCHANGED <<config, y, x0, f_history, y_bashforth, i, x, delta,
                 old_estimate, callee, calls, built, traj, hist_in, y_in,
                 rel_in, log>>

-----------------------------------------------------------------------------
(* Adams_<k>_Build_History *)

Build_Call ==
  /\ pc = "idle"
  /\ calls = 0
  /\ ~built
  /\ i' = 0
  /\ x' = 0
  /\ pc' = "build"
  /\ callee' = "build"
  /\ hist_in' = f_history
  /\ y_in' = y
  /\ log' = <<>>
  /\ UNCHANGED <<config, y, x0, f_history, y_bashforth, delta, old_estimate,
                 ret, calls, built, traj, rel_in>>

\* Variant of Build_Iterate: x is not advanced, every sample is taken at the
\* first abscissa
Build_Iterate_Stuck ==
  /\ pc = "build"
  /\ i < STEPS - 1
  /\ LET fv == Call(f, x, y_known[i])
     IN  /\ f_history' = [f_history EXCEPT ![i] = fv]
         /\ log' = log \o <<Ev("rd_known", i, y_known[i]),
                             Ev("f", x, y_known[i]), Ev("wr_hist", i, Dbl(fv))>>
  /\ i' = i + 1
  /\ UNCHANGED <<config, y, x0, y_bashforth, pc, x, delta, old_estimate, ret,
                 callee, calls, built, traj, hist_in, y_in, rel_in>>

\* for (i = 0; i < STEPS-1; x +=h, i++) f_history[i] = (*f)(x,y[i]);
Build_Iterate ==
  /\ pc = "build"
  /\ i < STEPS - 1
  /\ LET fv == Call(f, x, y_known[i])
     IN  /\ f_history' = [f_history EXCEPT ![i] = fv]
         /\ log' = log \o <<Ev("rd_known", i, y_known[i]),
                             Ev("f", x, y_known[i]), Ev("wr_hist", i, Dbl(fv))>>
  /\ x' = x + h
  /\ i' = i + 1
  /\ UNCHANGED <<config, y, x0, y_bashforth, pc, delta, old_estimate, ret,
                 callee, calls, built, traj, hist_in, y_in, rel_in>>

Build_Return ==
  /\ pc = "build"
  /\ ~(i < STEPS - 1)
  /\ pc' = "idle"
  /\ built' = TRUE
  /\ UNCHANGED <<config, y, x0, f_history, y_bashforth, i, x, delta,
                 old_estimate, ret, callee, calls, traj, hist_in, y_in,
                 rel_in, log>>

-----------------------------------------------------------------------------
(* The caller, between two calls of the step driver: y[1] becomes y[0] and *)
(* x0 + h becomes x0.                                                      *)

Advance ==
  /\ pc = "ret"
  /\ callee = "steps"
  /\ y' = [y EXCEPT ![0] = y[1]]
  /\ x0' = x0 + h
  /\ traj' = [xv \in DOMAIN traj \cup {x0 + h} |->
                IF xv = x0 + h THEN y[1] ELSE traj[xv]]
  /\ pc' = "idle"
  /\ UNCHANGED <<config, f_history, y_bashforth, i, x, delta, old_estimate,
                 ret, callee, calls, built, hist_in, y_in, rel_in, log>>

Next ==
  \/ Steps_Evaluate
  \/ Steps_Predict
  \/ Steps_Shift
  \/ Steps_Correct
  \/ Moulton_Call
  \/ Moulton_Delta
  \/ Moulton_Iterate
  \/ Moulton_Return
  \/ Build_Call
  \/ Build_Iterate
  \/ Build_Return
  \/ Advance

Spec == Init /\ [][Next]_vars

-----------------------------------------------------------------------------
(* What a call has done, read from its log *)

\* the outcomes of hasConverged, in the order of the iterations performed
Outcomes == SelectSeq(log, LAMBDA e : e.op = "conv")

NeverConverged == \A n \in 1..Len(Outcomes) : Outcomes[n].at = 0

\* hasConverged held on the n-th iteration and on none before it
FirstConverged(n) ==
  /\ n \in 1..Len(Outcomes)
  /\ Outcomes[n].at = 1
  /\ \A m \in 1..(n - 1) : Outcomes[m].at = 0

\* loop bodies executed by the corrector: evaluations of f at (x, y[1]),
\* none before the corrector has its delta and its parameter x
Bodies ==
  IF pc \in {"iterate", "break", "ret"}
  THEN Cardinality({n \in 1..Len(log) : log[n].op = "f" /\ log[n].at = x})
  ELSE 0

\* evaluations of f made by the current call
Evaluations == Cardinality({n \in 1..Len(log) : log[n].op = "f"})

Returned_From(fn) == pc = "ret" /\ callee = fn

-----------------------------------------------------------------------------
(* Claims *)

\* C1: for a call of the corrector or of the step driver with
\* iterations >= 0, the value returned is greater than iterations exactly
\* when hasConverged was false after every iteration performed, and it is n
\* when hasConverged first holds on the n-th iteration, 1 <= n <= iterations.
C1_ReturnSignalsConvergence ==
  pc = "ret" /\ iterations >= 0 =>
    /\ (ret > iterations) <=> NeverConverged
    /\ \A n \in 1..iterations : FirstConverged(n) => ret = n

\* the corrector converges on the last iteration the budget allows
C1_Witness ==
  /\ pc = "ret"
  /\ iterations >= 2
  /\ FirstConverged(iterations)
  /\ ret = iterations

Fresh == Call(f, x0, y_in[0])

\* C3 (as amended): after one call of the step driver on a buffer
\* old[0..k-1], new[i] = old[i+1] for i = 0..k-3 and both new[k-2] and
\* new[k-1] hold the just evaluated f(x0, y[0]); old[0] and old[k-1] are
\* dropped.
C3_HistoryShift ==
  Returned_From("steps") =>
    /\ \A j \in 0..(STEPS - 3) : f_history[j] = hist_in[j + 1]
    /\ f_history[STEPS - 2] = Fresh
    /\ f_history[STEPS - 1] = Fresh

\* a step on a buffer whose last entry is not f(x0, y[0])
C3_Witness ==
  /\ Returned_From("steps")
  /\ hist_in[STEPS - 1] /= Fresh
  /\ hist_in[1] /= hist_in[2]
  /\ f_history[0] = hist_in[1]

\* C3 as stated: new[i] = old[i+1] for i = 0..k-2 and new[k-1] is the just
\* evaluated f(x0, y[0]), for every content of old.
C3_AsStated ==
  Returned_From("steps") =>
    /\ \A j \in 0..(STEPS - 2) : f_history[j] = hist_in[j + 1]
    /\ f_history[STEPS - 1] = Fresh

\* C4: if HistoryRelation holds on entry of a call of the step driver, it
\* holds again once the caller has advanced x0 to x0+h and y[0] to y[1], so
\* across any number of consecutive steps.
C4_HistoryMaintained ==
  pc = "idle" /\ callee = "steps" /\ rel_in => HistoryRelation

\* two consecutive steps on a built history of samples that differ
C4_Witness ==
  /\ pc = "idle"
  /\ callee = "steps"
  /\ calls = 2
  /\ rel_in
  /\ HistoryRelation
  /\ f_history[0] /= f_history[1]

\* C5 as stated: after Build_History f_history[i] = f(x + i*h, y[i]) for
\* every i in 0..k-1, f having been evaluated at the k points in ascending
\* order.
C5_AsStated ==
  pc = "idle" /\ callee = "build" =>
    /\ \A j \in 0..(STEPS - 1) : f_history[j] = Call(f, j * h, y_known[j])
    /\ Evaluations = STEPS

Running(fn) == callee = fn /\ pc \notin {"idle", "build"}

\* C6: in every state of a step the corrector has evaluated f at most
\* iterations times and the whole step driver at most 1 + iterations times,
\* at most once when iterations <= 0, converged or not.
C6_BoundedWork ==
  /\ Running("moulton") \/ Running("steps") => Bodies <= Max(iterations, 0)
  /\ Running("moulton") => Evaluations <= Max(iterations, 0)
  /\ Running("steps") => Evaluations <= 1 + Max(iterations, 0)

\* a step that spends its whole budget of three without convergence
C6_Witness ==
  /\ Returned_From("steps")
  /\ iterations = 3
  /\ NeverConverged
  /\ Bodies = 3
  /\ Evaluations = 4

\* the buffer a step leaves, from the buffer on entry and f(x0, y[0]) alone
ShiftedHistory(old, fv) ==
  [j \in 0..(STEPS - 1) |-> IF j < STEPS - 2 THEN old[j + 1] ELSE fv]

\* C7: from the shift on, through every iteration of the corrector and on
\* return, the history buffer of a step is a function of the buffer on entry
\* and of f(x0, y[0]) alone, the same for every tolerance, budget and
\* convergence outcome.
C7_HistoryIndependentOfCorrector ==
  callee = "steps" /\ pc \in {"correct", "moulton", "iterate", "break", "ret"}
    => f_history = ShiftedHistory(hist_in, Fresh)

\* a step that did not converge and has shifted its history all the same
C7_Witness ==
  /\ Returned_From("steps")
  /\ iterations >= 1
  /\ ret > iterations
  /\ f_history /= hist_in
  /\ f_history = ShiftedHistory(hist_in, Fresh)

\* the longest magnitude of table[j..]
RECURSIVE Width(_, _)
Width(table, j) ==
  IF j > Len(table) THEN 0 ELSE Max(Len(table[j].mag), Width(table, j + 1))

\* limb l of SUM_{j = from..k-1} table[j] * history[k-1-j], before carries
RECURSIVE WeightedLimb(_, _, _, _)
WeightedLimb(table, hist, l, from) ==
  IF from > STEPS - 1
  THEN 0
  ELSE LET c == table[from + 1]
       IN  (IF c.neg THEN -1 ELSE 1) * Limb(c.mag, l) * hist[STEPS - 1 - from]
             + WeightedLimb(table, hist, l, from + 1)

\* SUM_{j = from..k-1} table[j] * history[k-1-j], summed limb by limb
WeightedSum(table, hist, from) ==
  Canon(Tuple([l \in 1..Width(table, 1) |-> WeightedLimb(table, hist, l, from)]))

\* the buffer the step driver hands to the predictor: the buffer on entry
\* with f(x0, y[0]) at index k-1
HistoryWithFresh == [hist_in EXCEPT ![STEPS - 1] = Fresh]

Predicted == Adams_Bashforth_Steps(y_in[0], h, HistoryWithFresh).value

\* C8: the step driver's predictor value is computed from y[0], h and the
\* buffer on entry with the fresh f(x0, y[0]) at index k-1; it is in
\* *y_bashforth from then on and still on return, and it is the y[1] the
\* corrector starts from.
C8_PredictorOutput ==
  callee = "steps" =>
    /\ pc \in {"shift", "correct", "moulton", "iterate", "break", "ret"}
         => y_bashforth = Predicted
    /\ pc = "moulton" => y[1] = Predicted

\* on return the corrector has moved y[1] away from the predictor value,
\* which the entry content of index k-1 would have changed
C8_Witness ==
  /\ Returned_From("steps")
  /\ y[1] /= y_bashforth
  /\ y_bashforth = Predicted
  /\ hist_in[STEPS - 1] /= Fresh
  /\ y_bashforth /= y_in[0]

\* the reads of f_history made by the predictor, in the order made
PredictorReads == SelectSeq(log, LAMBDA e : e.op = "rd_hist")

\* C9: the predictor returns y + h*divisor*SUM_{j=0..k-1}
\* bashforth[j]*history[k-1-j], reading history[k-1-j] for j ascending.
C9_PredictorFormula ==
  pc = "shift" =>
    /\ y_bashforth =
         Plus(y[0], Scale(WeightedSum(bashforth_table, f_history, 0), h))
    /\ Len(PredictorReads) = STEPS
    /\ \A j \in 0..(STEPS - 1) : PredictorReads[j + 1].at = STEPS - 1 - j

\* a prediction from samples that differ, away from y
C9_Witness ==
  /\ pc = "shift"
  /\ f_history[0] /= f_history[1]
  /\ f_history[STEPS - 1] /= f_history[0]
  /\ y_bashforth /= y[0]

\* y[0] + h*divisor*(moulton[0]*fv + dv)
Corrected(fv, dv) ==
  Plus(y[0], Scale(Plus(Times(moulton(0), Dbl(fv)), dv), h))

\* C10: the corrector computes delta = SUM_{j=1..k-1}
\* moulton[j]*history[k-1-j] before iterating, and every iteration replaces
\* y[1] by y[0] + h*divisor*(moulton[0]*f(x, y[1]) + delta) with that same
\* delta and the y[1] the iteration before left.
C10_CorrectorFormula ==
  [][ /\ pc = "moulton" =>
           delta' = WeightedSum(moulton_table, f_history, 1)
      /\ pc = "iterate" /\ pc' \in {"iterate", "break"} =>
           /\ delta' = delta
           /\ y'[0] = y[0]
           /\ f_history' = f_history
           /\ y'[1] = Corrected(Call(f, x, y[1]), delta)
    ]_vars

\* after a second iteration that moved y[1] again, with a delta of samples
\* that differ
C10_Witness ==
  /\ pc = "iterate"
  /\ i >= 2
  /\ delta /= Zero
  /\ y[1] /= old_estimate
  /\ delta = WeightedSum(moulton_table, f_history, 1)
  /\ f_history[0] /= f_history[1]

-----------------------------------------------------------------------------
(* hasConverged on its own: old_estimate, y[1] and tolerance are drawn in   *)
(* units of 10^-7, and the call of line 217 is applied to them.             *)

\* 1.0 in units of 10^-7
Unit == Dbl(10 ^ 7)

\* 0, 0.5, 0.5+1e-7, 0.5+1e-5, 1, 1+1e-7, 2, 100, 100+1e-7 and negatives
Samples ==
  { Dbl(0), Dbl(5000000), Dbl(5000001), Dbl(5000100), Dbl(10000000),
    Dbl(10000001), Dbl(20000000), Dbl(1000000000), Dbl(1000000001),
    Dbl(-5000000), Dbl(-10000000), Dbl(-20000000), Dbl(-1000000001) }

\* -1e-6, 0, 1e-7, 1e-6, 1e-5, 0.5, 1
Epsilons ==
  { Dbl(-10), Dbl(0), Dbl(1), Dbl(10), Dbl(100), Dbl(5000000), Dbl(10000000) }

Parked ==
  /\ order = 12
  /\ f = "zero"
  /\ h = 1
  /\ iterations = 0
  /\ f_history = [j \in 0..11 |-> 0]
  /\ y_known = [j \in 0..11 |-> Zero]
  /\ traj = [xv \in 0..11 |-> Zero]
  /\ x0 = 11
  /\ y_bashforth = Scratch
  /\ i = 0
  /\ x = 0
  /\ delta = Zero
  /\ ret = 0
  /\ callee = "none"
  /\ calls = 0
  /\ built = FALSE
  /\ hist_in = f_history
  /\ rel_in = FALSE
  /\ log = <<>>

InitConverged ==
  /\ Parked
  /\ old_estimate \in Samples
  /\ y \in {[j \in 0..1 |-> IF j = 0 THEN Zero ELSE v] : v \in Samples}
  /\ tolerance \in Epsilons
  /\ y_in = y
  /\ pc = "test"

\* if ( hasConverged(old_estimate, y[1], tolerance) ) ...
Converged_Test ==
  /\ pc = "test"
  /\ ret' = IF hasConvergedIn(Unit, old_estimate, y[1], tolerance) THEN 1 ELSE 0
  /\ pc' = "tested"
  /\ UNCHANGED <<config, y, x0, f_history, y_bashforth, i, x, delta,
                 old_estimate, callee, calls, built, traj, hist_in, y_in,
                 rel_in, log>>

NextConverged == Converged_Test

SpecConverged == InitConverged /\ [][NextConverged]_vars

\* the smaller of |y0| and |y1|
Smaller(a, b) == IF Less(fabs(a), fabs(b)) THEN fabs(a) ELSE fabs(b)

\* |y0 - y1| < bound, bound = |y1|*eps if min(|y0|, |y1|) > 1, eps otherwise
WithinBound(a, b, eps) ==
  IF Greater(Smaller(a, b), Unit)
  THEN Less(Times(fabs(Sub(a, b)), Unit), Times(fabs(b), eps))
  ELSE Less(fabs(Sub(a, b)), eps)

Tested(a, b, eps) ==
  pc = "tested" /\ old_estimate = Dbl(a) /\ y[1] = Dbl(b) /\ tolerance = Dbl(eps)

-----------------------------------------------------------------------------
\* C12: a call of the corrector, directly or through the step driver, with
\* iterations = 0 returns 1, whatever f, history, y, h and tolerance are.
C12_ZeroBudgetReturnsOne ==
  pc = "ret" /\ iterations = 0 => ret = 1

\* a step with budget 0 on samples that differ has returned 1
C12_Witness ==
  /\ Returned_From("steps")
  /\ iterations = 0
  /\ ret = 1
  /\ f /= "zero"
  /\ hist_in[0] /= hist_in[1]

\* the y[1] the corrector was entered with
EnteredWith == IF callee = "steps" THEN y_bashforth ELSE y_in[1]

\* C13 (as amended): with iterations = 0 the loop test fails before any
\* body: the corrector does not evaluate f and does not write y[1], which
\* keeps the value the corrector was entered with.
C13_ZeroBudgetRunsNoBody ==
  pc = "ret" /\ iterations = 0 =>
    /\ Bodies = 0
    /\ Outcomes = <<>>
    /\ y[1] = EnteredWith
    /\ Evaluations = IF callee = "steps" THEN 1 ELSE 0

\* a direct call with budget 0 returns with y[1] as it was passed
C13_Witness ==
  /\ Returned_From("moulton")
  /\ iterations = 0
  /\ Evaluations = 0
  /\ y[1] = y_in[1]
  /\ f = "relay"

\* C13 as stated: with iterations = 0 the loop body runs once, f is
\* evaluated once at (x, y[1]) and y[1] is overwritten once.
C13_AsStated ==
  pc = "ret" /\ iterations = 0 => Bodies = 1

\* the corrector update applied n times, starting from v
RECURSIVE Updated(_, _)
Updated(n, v) ==
  IF n = 0
  THEN v
  ELSE LET u == Updated(n - 1, v)
       IN  Corrected(Call(f, x, u), WeightedSum(moulton_table, f_history, 1))

\* C14: when a step with budget N >= 1 returns N+1, y[1] is the corrector
\* update applied exactly N times to the predictor value, not the predictor
\* value and not an earlier iterate.
C14_LastEstimateKept ==
  Returned_From("steps") /\ iterations >= 1 /\ ret = iterations + 1 =>
    y[1] = Updated(iterations, y_bashforth)

\* a step that did not converge and whose last estimate is neither the
\* predictor value nor the estimate before it
C14_Witness ==
  /\ Returned_From("steps")
  /\ iterations >= 2
  /\ ret = iterations + 1
  /\ y[1] /= y_bashforth
  /\ y[1] /= old_estimate

\* f is identically 0 and the history passed to the current call is all 0
ZeroProblem == f = "zero" /\ \A j \in 0..(STEPS - 1) : hist_in[j] = 0

\* C15: for f identically 0 and an all-zero history the predictor returns
\* its input y and the corrector leaves the estimate equal to y: a step ends
\* with y[1] = y[0] = *y_bashforth, for every h, order and tolerance.
C15_ZeroProblem ==
  ZeroProblem =>
    /\ callee = "steps" /\ pc \in {"shift", "correct"} => y_bashforth = y[0]
    /\ Returned_From("steps") =>
         y[1] = y[0] /\ y_bashforth = y[0] /\ y[0] = y_in[0]
    /\ Returned_From("moulton") /\ iterations >= 1 => y[1] = y[0]

\* a step of order 20 on the zero problem that used its whole budget
C15_Witness ==
  /\ ZeroProblem
  /\ Returned_From("steps")
  /\ order = 20
  /\ h = 2
  /\ ret > iterations
  /\ iterations >= 2
  /\ y[0] /= Zero
  /\ y[1] = y[0]
  /\ y_bashforth = y[0]

-----------------------------------------------------------------------------
(* The type double with its rounding: a finite double is m * 2^e with m an  *)
(* odd integer below 2^53 in magnitude, or m = 0 and e = 0.  Operations     *)
(* round to nearest, ties to even; no product is fused with a sum.          *)

Two53 == Pos(<<9007, 1992, 5474, 992>>)

Odd(u) == u /= <<>> /\ u[1] % 2 = 1

\* Base^n modulo 2^k, n <= 2
BaseMod(n, k) ==
  LET b == Base % (2 ^ k)
  IN  IF n = 1 THEN b ELSE (b * b) % (2 ^ k)

\* the lowest k bits of the limbs of u from limb j on, k <= 12 (2^12
\* divides Base^3)
LowBitsFrom(u, j, k) ==
  (Limb(u, j) + Limb(u, j + 1) * BaseMod(1, k)
              + Limb(u, j + 2) * BaseMod(2, k)) % (2 ^ k)

\* the lowest k bits of the magnitude u, k <= 12
LowBits(u, k) == LowBitsFrom(u, 1, k)

\* the magnitude u without its lowest k bits, k <= 12: limb j of the
\* quotient by 2^k takes the remainder of the limbs above it
ShiftRight(u, k) ==
  Strip(Tuple([j \in 1..Len(u) |->
                 (u[j] + Base * LowBitsFrom(u, j + 1, k)) \div (2 ^ k)]))

Halve(u) == ShiftRight(u, 1)

\* a * 2^n
RECURSIVE ShiftLeft(_, _)
ShiftLeft(a, n) ==
  IF n <= 0 THEN a ELSE ShiftLeft(Scale(a, 2 ^ Min(n, 14)), n - Min(n, 14))

Two57 == Pos(<<14, 4115, 1880, 7585, 5872>>)

Two65 == Pos(<<3689, 3488, 1474, 1910, 3232>>)

\* u * 2^e with u odd, or zero
RECURSIVE Reduce(_, _, _)
Reduce(neg, u, e) ==
  IF u = <<>> THEN [m |-> Zero, e |-> 0]
  ELSE IF Odd(u) THEN [m |-> Num(neg, u), e |-> e]
  ELSE IF LowBits(u, 12) = 0 THEN Reduce(neg, ShiftRight(u, 12), e + 12)
  ELSE IF LowBits(u, 4) = 0 THEN Reduce(neg, ShiftRight(u, 4), e + 4)
  ELSE Reduce(neg, Halve(u), e + 1)

\* u * 2^e brought below 2^53 by dropping low bits, twelve or four at a time
\* while that leaves 53 bits or more, then rounded on the last bit dropped
\* (round) and on whether any bit dropped before it was set (sticky)
RECURSIVE RoundMag(_, _, _, _, _)
RoundMag(neg, u, e, round, sticky) ==
  IF ~Less(Num(FALSE, u), Two65)
  THEN RoundMag(neg, ShiftRight(u, 12), e + 12, LowBits(u, 12) >= 2048,
                sticky \/ round \/ LowBits(u, 11) /= 0)
  ELSE IF ~Less(Num(FALSE, u), Two57)
  THEN RoundMag(neg, ShiftRight(u, 4), e + 4, LowBits(u, 4) >= 8,
                sticky \/ round \/ LowBits(u, 3) /= 0)
  ELSE IF ~Less(Num(FALSE, u), Two53)
  THEN RoundMag(neg, Halve(u), e + 1, Odd(u), sticky \/ round)
  ELSE IF round /\ (sticky \/ Odd(u))
       THEN Reduce(neg, Plus(Num(FALSE, u), Dbl(1)).mag, e)
       ELSE Reduce(neg, u, e)

\* Variant of Fl: the value is kept as it is, as in real arithmetic
FlExact(v, e) == Reduce(v.neg, v.mag, e)

\* the double nearest to v * 2^e
Fl(v, e) == RoundMag(v.neg, v.mag, e, FALSE, FALSE)

\* an integer literal or an int converted to double
FromBig(v) == Fl(v, 0)

FromInt(n) == Fl(Dbl(n), 0)

\* a * b
FMul(a, b) ==
  IF a.m = Zero \/ b.m = Zero THEN [m |-> Zero, e |-> 0]
  ELSE Fl(Times(a.m, b.m), a.e + b.e)

\* a + b and a - b as real numbers, not rounded
ExactSum(a, b) ==
  LET e == Min(a.e, b.e)
  IN  [m |-> Plus(ShiftLeft(a.m, a.e - e), ShiftLeft(b.m, b.e - e)), e |-> e]

ExactDiff(a, b) ==
  LET e == Min(a.e, b.e)
  IN  [m |-> Sub(ShiftLeft(a.m, a.e - e), ShiftLeft(b.m, b.e - e)), e |-> e]

\* a + b
FAdd(a, b) ==
  IF a.m = Zero THEN b
  ELSE IF b.m = Zero THEN a
  ELSE LET s == ExactSum(a, b) IN Fl(s.m, s.e)

\* bits of the magnitude u
RECURSIVE Bits(_)
Bits(u) ==
  IF u = <<>> THEN 0
  ELSE IF Len(u) > 1 THEN 12 + Bits(ShiftRight(u, 12))
  ELSE IF u[1] >= 16 THEN 4 + Bits(ShiftRight(u, 4))
  ELSE 1 + Bits(Halve(u))

\* the hexadecimal digit t with t*d <= r < (t+1)*d, for r < 16*d
Digit(r, d) ==
  CHOOSE t \in 0..15 : /\ ~Less(r, Scale(d, t))
                       /\ Less(r, Scale(d, t + 1))

\* quotient q and remainder r of 16^n by d, one hexadecimal digit at a time,
\* the highest first; s holds the quotient and the remainder so far (with
\* remainder 0 the digits that are left are 0)
RECURSIVE PowerDiv(_, _, _)
PowerDiv(d, n, s) ==
  IF s.r = Zero THEN [q |-> ShiftLeft(s.q, 4 * n), r |-> Zero]
  ELSE IF n <= 0 THEN s
  ELSE PowerDiv(d, n - 1,
                [q |-> Plus(Scale(s.q, 16), Dbl(Digit(Scale(s.r, 16), d))),
                 r |-> Sub(Scale(s.r, 16),
                           Scale(d, Digit(Scale(s.r, 16), d)))])

\* 1.0 / a for a positive double a: 55 bits or more of the quotient,
\* rounded with the remainder as sticky bit
Reciprocal(a) ==
  LET n == (Bits(a.m.mag) + 58) \div 4
      k == (Bits(a.m.mag) - 1) \div 4     \* 16^k <= a.m: k digits are 0
      d == PowerDiv(a.m, n - k,
                    IF a.m = Dbl(1) THEN [q |-> Dbl(1), r |-> Zero]
                    ELSE [q |-> Zero, r |-> ShiftLeft(Dbl(1), 4 * k)])
  IN  RoundMag(FALSE, d.q.mag, 0 - 4 * n - a.e, FALSE, d.r /= Zero)

-----------------------------------------------------------------------------
(* Adams_Bashforth_<k>_Steps in double arithmetic, on a history filled with *)
(* one slope c: delta and y_bashforth hold doubles, i and x are the loop's  *)
(* i and n.                                                                 *)

MaxSlope == 3        \* slopes c are -MaxSlope..MaxSlope

Slopes == (0 - MaxSlope)..MaxSlope

\* values of the argument y
Ordinates == {0, 5}

\* static const double divisor = 1.0 / <integer literal>;
divisor == Reciprocal(FromBig(reciprocal))

InitDouble ==
  /\ order \in Orders
  /\ h \in 1..MaxH
  /\ f_history \in {[j \in 0..(order - 1) |-> c] : c \in Slopes}
  /\ y \in {[j \in 0..1 |-> FromInt(IF j = 0 THEN v ELSE 0)] : v \in Ordinates}
  /\ f = "slope"
  /\ tolerance = Zero
  /\ iterations = 0
  /\ y_known = [j \in 0..(order - 1) |-> Zero]
  /\ traj = [xv \in 0..(order - 1) |-> Zero]
  /\ x0 = 0
  /\ y_bashforth = FromInt(0)
  /\ pc = "sum"
  /\ i = 0
  /\ x = order - 1
  /\ delta = FromInt(0)
  /\ old_estimate = Zero
  /\ ret = 0
  /\ callee = "bashforth"
  /\ calls = 0
  /\ built = FALSE
  /\ hist_in = f_history
  /\ y_in = y
  /\ rel_in = FALSE
  /\ log = <<>>

\* delta += bashforth[i] * f_history[n];  i++, n--
Bashforth_Accumulate ==
  /\ pc = "sum"
  /\ i < STEPS
  /\ delta' = FAdd(delta, FMul(FromBig(bashforth(i)), FromInt(f_history[x])))
  /\ i' = i + 1
  /\ x' = x - 1
  /\ UNCHANGED <<config, y, x0, f_history, y_bashforth, pc, old_estimate, ret,
                 callee, calls, built, traj, hist_in, y_in, rel_in, log>>

\* return y + h * divisor * delta;
Bashforth_Return ==
  /\ pc = "sum"
  /\ ~(i < STEPS)
  /\ y_bashforth' = FAdd(y[0], FMul(FMul(FromInt(h), divisor), delta))
  /\ pc' = "returned"
  /\ UNCHANGED <<config, y, x0, f_history, i, x, delta, old_estimate, ret,
                 callee, calls, built, traj, hist_in, y_in, rel_in, log>>

NextDouble ==
  \/ Bashforth_Accumulate
  \/ Bashforth_Return

SpecDouble == InitDouble /\ [][NextDouble]_vars

\* the slope the history is filled with
Slope == f_history[0]

\* the value returned less y + h*c, as a real number
PredictorError ==
  ExactDiff(y_bashforth, ExactSum(y[0], FromInt(h * Slope)))

\* |a| * 2^k <= n for a real number a = m * 2^e and an integer n >= 0
ScaledWithin(a, k, n) ==
  IF a.e + k >= 0
  THEN ~Less(Dbl(n), ShiftLeft(fabs(a.m), a.e + k))
  ELSE ~Less(ShiftLeft(Dbl(n), 0 - (a.e + k)), fabs(a.m))

Magnitude(n) == IF n < 0 THEN 0 - n ELSE n

Predicted_From(k, c, v, hv) ==
  /\ pc = "returned"
  /\ order = k
  /\ Slope = c
  /\ y[0] = FromInt(v)
  /\ h = hv

-----------------------------------------------------------------------------
(* Two calls of Adams_<k>_Steps running at once, each a thread that takes   *)
(* one read, write or f call at a time.  The arrays the callers pass lie in *)
(* one memory: f_history, y and y_bashforth map an address to the double    *)
(* held there, and each call is given its own pointers into them.  The      *)
(* automatic variables of the functions (i, n, delta, old_estimate and the  *)
(* parameter y) are one frame per thread; x holds the local n, y_in the     *)
(* parameter y of the predictor, log the value a thread has read or got     *)
(* from f and not yet stored.  rel_in records that a thread took a step     *)
(* while the call of the other was in progress.                             *)

MaxBudget == 1       \* iteration budgets: 0..MaxBudget and MaxBudget

Threads == {1, 2}

Other(t) == 3 - t

\* the stack frame that holds the locals of the call made by thread t
Frame(t) == t

\* Variant of Accumulator: delta is in static storage, one copy for all calls
AccumulatorStatic(t) == 1

\* where the local delta of the call made by thread t is
Accumulator(t) == Frame(t)

\* the pointers thread t passes: f_history, y and y_bashforth
HistoryBase(t) == (t - 1) * STEPS

YBase(t) == (t - 1) * 2

CellOf(t) == t - 1

\* what the arrays of thread t hold on entry
InputHistory(t) == [j \in 0..(STEPS - 1) |-> t * (j + 1) - 3]

InputY(t) == [j \in 0..1 |-> IF j = 0 THEN Scale(One, 2 * (t - 1)) ELSE Scratch]

InputX0(t) == STEPS - 1 + t

InFlight(t) == pc[t] \notin {"idle", "ret"}

InitThreads ==
  /\ order \in Orders
  /\ f = "relay"
  /\ h = 1
  /\ tolerance \in {Zero, Scale(reciprocal, 1000)}
  /\ iterations \in {[t \in Threads |-> IF t = 1 THEN n ELSE MaxBudget] :
                        n \in 0..MaxBudget}
  /\ y_known = [j \in 0..(order - 1) |-> Zero]
  /\ traj = [xv \in 0..(order - 1) |-> Zero]
  /\ x0 = [t \in Threads |-> InputX0(t)]
  /\ f_history = [a \in 0..(2 * order - 1) |->
                    InputHistory(1 + a \div order)[a % order]]
  /\ y = [a \in 0..3 |-> InputY(1 + a \div 2)[a % 2]]
  /\ y_bashforth = [a \in 0..1 |-> Scratch]
  /\ pc = [t \in Threads |-> "idle"]
  /\ i = [t \in Threads |-> 0]
  /\ x = [t \in Threads |-> 0]
  /\ delta = [t \in Threads |-> <<>>]
  /\ old_estimate = [t \in Threads |-> Zero]
  /\ y_in = [t \in Threads |-> Zero]
  /\ ret = [t \in Threads |-> 0]
  /\ log = [t \in Threads |-> Ev("none", 0, 0)]
  /\ callee = "steps"
  /\ calls = 0
  /\ built = FALSE
  /\ hist_in = f_history
  /\ rel_in = FALSE

\* what every step of thread t leaves alone or records
Stepped(t) ==
  /\ rel_in' = (rel_in \/ InFlight(Other(t)))
  /\ UNCHANGED <<config, x0, y_known, callee, calls, built, traj, hist_in>>

\* Adams_<k>_Steps: the read of y[0] for (*f)(x0, y[0])
Thread_ReadY(t) ==
  /\ pc[t] = "idle"
  /\ log' = [log EXCEPT ![t] = Ev("rd_y", 0, y[YBase(t)])]
  /\ pc' = [pc EXCEPT ![t] = "call"]
  /\ Stepped(t)
  /\ UNCHANGED <<y, f_history, y_bashforth, i, x, delta, old_estimate, ret,
                 y_in>>

\* (*f)(x0, y[0])
Thread_Call(t) ==
  /\ pc[t] = "call"
  /\ log' = [log EXCEPT ![t] = Ev("f", x0[t], Call(f, x0[t], log[t].val))]
  /\ pc' = [pc EXCEPT ![t] = "store"]
  /\ Stepped(t)
  /\ UNCHANGED <<y, f_history, y_bashforth, i, x, delta, old_estimate, ret,
                 y_in>>

\* f_history[STEPS-1] = <the value f returned>
Thread_Store(t) ==
  /\ pc[t] = "store"
  /\ f_history' = [f_history EXCEPT ![HistoryBase(t) + STEPS - 1] = log[t].val]
  /\ pc' = [pc EXCEPT ![t] = "predict"]
  /\ Stepped(t)
  /\ UNCHANGED <<y, y_bashforth, i, x, delta, old_estimate, ret, y_in, log>>

\* the call Adams_Bashforth_<k>_Steps( y[0], h, f_history ): y[0] is read
\* into the parameter y; double delta = 0.0; int n = STEPS-1; i = 0
Thread_Predict(t) ==
  /\ pc[t] = "predict"
  /\ y_in' = [y_in EXCEPT ![Frame(t)] = y[YBase(t)]]
  /\ delta' = [delta EXCEPT ![Accumulator(t)] = <<>>]
  /\ i' = [i EXCEPT ![Frame(t)] = 0]
  /\ x' = [x EXCEPT ![Frame(t)] = BashforthStart]
  /\ pc' = [pc EXCEPT ![t] = "sum"]
  /\ Stepped(t)
  /\ UNCHANGED <<y, f_history, y_bashforth, old_estimate, ret, log>>

\* delta += bashforth[i] * f_history[n];  i++, n--
Thread_Sum(t) ==
  /\ pc[t] = "sum"
  /\ i[Frame(t)] < STEPS
  /\ delta' = [delta EXCEPT ![Accumulator(t)] =
                 MulAdd(@, bashforth(i[Frame(t)]),
                        f_history[HistoryBase(t) + x[Frame(t)]])]
  /\ i' = [i EXCEPT ![Frame(t)] = @ + 1]
  /\ x' = [x EXCEPT ![Frame(t)] = @ - 1]
  /\ Stepped(t)
  /\ UNCHANGED <<y, f_history, y_bashforth, old_estimate, ret, y_in, log, pc>>

\* *y_bashforth = <return y + h * divisor * delta>;  then i = 0 of the shift
Thread_Predicted(t) ==
  /\ pc[t] = "sum"
  /\ ~(i[Frame(t)] < STEPS)
  /\ y_bashforth' = [y_bashforth EXCEPT ![CellOf(t)] =
                       Plus(y_in[Frame(t)], Scale(Canon(delta[Accumulator(t)]), h))]
  /\ i' = [i EXCEPT ![Frame(t)] = 0]
  /\ pc' = [pc EXCEPT ![t] = "shift"]
  /\ Stepped(t)
  /\ UNCHANGED <<y, f_history, x, delta, old_estimate, ret, y_in, log>>

\* the read of f_history[i+1] in f_history[i] = f_history[i+1]
Thread_ShiftRead(t) ==
  /\ pc[t] = "shift"
  /\ i[Frame(t)] < STEPS - 1
  /\ log' = [log EXCEPT ![t] =
               Ev("rd_hist", i[Frame(t)] + 1,
                  f_history[HistoryBase(t) + i[Frame(t)] + 1])]
  /\ pc' = [pc EXCEPT ![t] = "shifted"]
  /\ Stepped(t)
  /\ UNCHANGED <<y, f_history, y_bashforth, i, x, delta, old_estimate, ret,
                 y_in>>

\* the write of f_history[i];  i++
Thread_ShiftWrite(t) ==
  /\ pc[t] = "shifted"
  /\ f_history' = [f_history EXCEPT ![HistoryBase(t) + i[Frame(t)]] =
                     log[t].val]
  /\ i' = [i EXCEPT ![Frame(t)] = @ + 1]
  /\ pc' = [pc EXCEPT ![t] = "shift"]
  /\ Stepped(t)
  /\ UNCHANGED <<y, y_bashforth, x, delta, old_estimate, ret, y_in, log>>

\* the read of *y_bashforth in y[1] = *y_bashforth
Thread_CopyRead(t) ==
  /\ pc[t] = "shift"
  /\ ~(i[Frame(t)] < STEPS - 1)
  /\ log' = [log EXCEPT ![t] = Ev("rd_yb", 0, y_bashforth[CellOf(t)])]
  /\ pc' = [pc EXCEPT ![t] = "copy"]
  /\ Stepped(t)
  /\ UNCHANGED <<y, f_history, y_bashforth, i, x, delta, old_estimate, ret,
                 y_in>>

\* the write of y[1], then the call of Adams_Moulton_<k-1>_Steps:
\* double delta = 0.0; int n = STEPS-2; i = 1
Thread_CopyWrite(t) ==
  /\ pc[t] = "copy"
  /\ y' = [y EXCEPT ![YBase(t) + 1] = log[t].val]
  /\ delta' = [delta EXCEPT ![Accumulator(t)] = <<>>]
  /\ i' = [i EXCEPT ![Frame(t)] = 1]
  /\ x' = [x EXCEPT ![Frame(t)] = MoultonStart]
  /\ pc' = [pc EXCEPT ![t] = "moulton"]
  /\ Stepped(t)
  /\ UNCHANGED <<f_history, y_bashforth, old_estimate, ret, y_in, log>>

\* delta += moulton[i] * f_history[n];  i++, n--
Thread_Delta(t) ==
  /\ pc[t] = "moulton"
  /\ i[Frame(t)] < STEPS
  /\ delta' = [delta EXCEPT ![Accumulator(t)] =
                 MulAdd(@, moulton(i[Frame(t)]),
                        f_history[HistoryBase(t) + x[Frame(t)]])]
  /\ i' = [i EXCEPT ![Frame(t)] = @ + 1]
  /\ x' = [x EXCEPT ![Frame(t)] = @ - 1]
  /\ Stepped(t)
  /\ UNCHANGED <<y, f_history, y_bashforth, old_estimate, ret, y_in, log, pc>>

\* the end of the delta loop: i = 0 of for (i = 0; i < iterations; i++)
Thread_Loop(t) ==
  /\ pc[t] = "moulton"
  /\ ~(i[Frame(t)] < STEPS)
  /\ i' = [i EXCEPT ![Frame(t)] = 0]
  /\ pc' = [pc EXCEPT ![t] = "iterate"]
  /\ Stepped(t)
  /\ UNCHANGED <<y, f_history, y_bashforth, x, delta, old_estimate, ret,
                 y_in, log>>

\* old_estimate = y[1];
Thread_Keep(t) ==
  /\ pc[t] = "iterate"
  /\ i[Frame(t)] < iterations[t]
  /\ old_estimate' = [old_estimate EXCEPT ![Frame(t)] = y[YBase(t) + 1]]
  /\ pc' = [pc EXCEPT ![t] = "evaluate"]
  /\ Stepped(t)
  /\ UNCHANGED <<y, f_history, y_bashforth, i, x, delta, ret, y_in, log>>

\* (*f)(x, y[1]) with x = x0 + h
Thread_Evaluate(t) ==
  /\ pc[t] = "evaluate"
  /\ log' = [log EXCEPT ![t] =
               Ev("f", x0[t] + h, Call(f, x0[t] + h, y[YBase(t) + 1]))]
  /\ pc' = [pc EXCEPT ![t] = "update"]
  /\ Stepped(t)
  /\ UNCHANGED <<y, f_history, y_bashforth, i, x, delta, old_estimate, ret,
                 y_in>>

\* y[1] = y[0] + h * divisor * ( moulton[0] * <value of f> + delta );
Thread_Update(t) ==
  /\ pc[t] = "update"
  /\ y' = [y EXCEPT ![YBase(t) + 1] =
             MoultonEstimate(y[YBase(t)], h, log[t].val,
                             Canon(delta[Accumulator(t)]))]
  /\ pc' = [pc EXCEPT ![t] = "test"]
  /\ Stepped(t)
  /\ UNCHANGED <<f_history, y_bashforth, i, x, delta, old_estimate, ret,
                 y_in, log>>

\* if (hasConverged(old_estimate, y[1], tolerance)) break;  else i++
Thread_Test(t) ==
  /\ pc[t] = "test"
  /\ IF hasConverged(old_estimate[Frame(t)], y[YBase(t) + 1], tolerance)
     THEN /\ ret' = [ret EXCEPT ![t] = i[Frame(t)] + 1]
          /\ pc' = [pc EXCEPT ![t] = "ret"]
          /\ i' = i
     ELSE /\ i' = [i EXCEPT ![Frame(t)] = @ + 1]
          /\ pc' = [pc EXCEPT ![t] = "iterate"]
          /\ ret' = ret
  /\ Stepped(t)
  /\ UNCHANGED <<y, f_history, y_bashforth, x, delta, old_estimate, y_in,
                 log>>

\* return i+1; after the loop test fails
Thread_Return(t) ==
  /\ pc[t] = "iterate"
  /\ ~(i[Frame(t)] < iterations[t])
  /\ ret' = [ret EXCEPT ![t] = i[Frame(t)] + 1]
  /\ pc' = [pc EXCEPT ![t] = "ret"]
  /\ Stepped(t)
  /\ UNCHANGED <<y, f_history, y_bashforth, i, x, delta, old_estimate, y_in,
                 log>>

NextThreads ==
  \E t \in Threads :
     \/ Thread_ReadY(t)
     \/ Thread_Call(t)
     \/ Thread_Store(t)
     \/ Thread_Predict(t)
     \/ Thread_Sum(t)
     \/ Thread_Predicted(t)
     \/ Thread_ShiftRead(t)
     \/ Thread_ShiftWrite(t)
     \/ Thread_CopyRead(t)
     \/ Thread_CopyWrite(t)
     \/ Thread_Delta(t)
     \/ Thread_Loop(t)
     \/ Thread_Keep(t)
     \/ Thread_Evaluate(t)
     \/ Thread_Update(t)
     \/ Thread_Test(t)
     \/ Thread_Return(t)

SpecThreads == InitThreads /\ [][NextThreads]_vars

\* the corrector run by itself from y[1] = y1 with i = iv: what it leaves in
\* y[1] and what it returns
RECURSIVE MoultonAlone(_, _, _, _, _, _)
MoultonAlone(iv, y0v, y1v, xv, dv, budget) ==
  IF iv < budget
  THEN LET est == MoultonEstimate(y0v, h, Call(f, xv, y1v), dv)
       IN  IF hasConverged(y1v, est, tolerance)
           THEN [y1 |-> est, ret |-> iv + 1]
           ELSE MoultonAlone(iv + 1, y0v, est, xv, dv, budget)
  ELSE [y1 |-> y1v, ret |-> iv + 1]

\* the history of thread t after f_history[STEPS-1] = (*f)(x0, y[0]) run by
\* itself on the arrays as they were on entry
EvaluatedAlone(t) ==
  [InputHistory(t) EXCEPT
     ![STEPS - 1] = Call(f, InputX0(t), InputY(t)[0])]

\* the predictor of thread t run by itself after that
PredictedAlone(t) ==
  Adams_Bashforth_Steps(InputY(t)[0], h, EvaluatedAlone(t)).value

\* the step of thread t run by itself on the arrays as they were on entry
Alone(t) ==
  LET shifted == ShiftLoop(0, EvaluatedAlone(t), <<>>).hist
      dv == MoultonLoop(Locals(1, MoultonStart), shifted).delta
      m == MoultonAlone(0, InputY(t)[0], PredictedAlone(t), InputX0(t) + h,
                        dv, iterations[t])
  IN  [y_bashforth |-> PredictedAlone(t), f_history |-> shifted,
       y1 |-> m.y1, ret |-> m.ret]

\* the arrays of thread t as they are in memory
HistoryOf(t) == [j \in 0..(STEPS - 1) |-> f_history[HistoryBase(t) + j]]

YOf(t) == [j \in 0..1 |-> y[YBase(t) + j]]

\* thread t has made no access yet and its arrays are as passed
Untouched(t) ==
  /\ HistoryOf(t) = InputHistory(t)
  /\ YOf(t) = InputY(t)
  /\ y_bashforth[CellOf(t)] = Scratch

\* C17: a step interleaved with another step on disjoint arrays, read by
\* read, write by write and f call by f call, returns with y[1],
\* *y_bashforth, the history and the return value of the same step run by
\* itself, and its predictor has written the value it writes run by itself;
\* the arrays of a call that has not started are as passed and y[0] is never
\* changed
C17_ThreadsIndependent ==
  \A t \in Threads :
     /\ pc[t] = "ret" =>
          /\ YOf(t) = [InputY(t) EXCEPT ![1] = Alone(t).y1]
          /\ y_bashforth[CellOf(t)] = Alone(t).y_bashforth
          /\ HistoryOf(t) = Alone(t).f_history
          /\ ret[t] = Alone(t).ret
     /\ pc[t] = "shift" /\ i[Frame(t)] = 0 =>
          y_bashforth[CellOf(t)] = PredictedAlone(t)
     /\ pc[t] = "idle" => Untouched(t)
     /\ y[YBase(t)] = InputY(t)[0]

C17_Witness ==
  /\ rel_in
  /\ \A t \in Threads : pc[t] = "ret" /\ iterations[t] >= 1
  /\ YOf(1)[1] = Alone(1).y1
  /\ YOf(2)[1] = Alone(2).y1
  /\ Alone(1).y1 /= Alone(2).y1
  /\ HistoryOf(1) = Alone(1).f_history
  /\ HistoryOf(2) = Alone(2).f_history

-----------------------------------------------------------------------------
(* A derivative callable that fails.  The code tests nothing after a call   *)
(* of f, so a call of f fails for it only by not returning (it exits or     *)
(* jumps out through the frames of the file): control leaves the function   *)
(* at the point of the call, pc becomes "failed", and the statement holding *)
(* the call is not completed.                                               *)

\* Variant of Steps_Evaluate_Fails: the history is shifted before the first
\* evaluation is made
Steps_Evaluate_Fails_Shifted ==
  /\ pc = "idle"
  /\ calls < MaxCalls
  /\ f_history' = ShiftLoop(0, f_history, <<>>).hist
  /\ log' = <<Ev("rd_y", 0, y[0]), Ev("raise", x0, y[0])>>
  /\ pc' = "failed"
  /\ callee' = "steps"
  /\ calls' = calls + 1
  /\ hist_in' = f_history
  /\ y_in' = y
  /\ rel_in' = HistoryRelation
  /\ UNCHANGED <<config, y, x0, y_bashforth, i, x, delta, old_estimate, ret,
                 built, traj>>

\* f_history[STEPS-1] = (*f)(x0, y[0]); with a call that does not return:
\* the assignment is not made
Steps_Evaluate_Fails ==
  /\ pc = "idle"
  /\ calls < MaxCalls
  /\ log' = <<Ev("rd_y", 0, y[0]), Ev("raise", x0, y[0])>>
  /\ pc' = "failed"
  /\ callee' = "steps"
  /\ calls' = calls + 1
  /\ hist_in' = f_history
  /\ y_in' = y
  /\ rel_in' = HistoryRelation
  /\ UNCHANGED <<config, y, x0, f_history, y_bashforth, i, x, delta,
                 old_estimate, ret, built, traj>>

\* old_estimate = y[1]; y[1] = ... (*f)(x, y[1]) ...; with a call that does
\* not return: y[1] is not assigned
Moulton_Iterate_Fails ==
  /\ pc = "iterate"
  /\ InBudget
  /\ old_estimate' = y[1]
  /\ log' = log \o <<Ev("rd_y", 1, y[1]), Ev("raise", x, y[1])>>
  /\ pc' = "failed"
  /\ UNCHANGED <<config, y, x0, f_history, y_bashforth, i, x, delta, ret,
                 callee, calls, built, traj, hist_in, y_in, rel_in>>

\* f_history[i] = (*f)(x,y[i]); with a call that does not return
Build_Iterate_Fails ==
  /\ pc = "build"
  /\ i < STEPS - 1
  /\ log' = log \o <<Ev("rd_known", i, y_known[i]),
                     Ev("raise", x, y_known[i])>>
  /\ pc' = "failed"
  /\ UNCHANGED <<config, y, x0, f_history, y_bashforth, i, x, delta,
                 old_estimate, ret, callee, calls, built, traj, hist_in,
                 y_in, rel_in>>

NextFailure ==
  \/ Next
  \/ Steps_Evaluate_Fails
  \/ Moulton_Iterate_Fails
  \/ Build_Iterate_Fails

SpecFailure == Init /\ [][NextFailure]_vars

\* calls of f that did not return
Failures == Cardinality({n \in 1..Len(log) : log[n].op = "raise"})

\* the call of f that failed is the n-th call of f of the function running
FailedAt(n) ==
  /\ pc = "failed"
  /\ log[Len(log)].op = "raise"
  /\ Evaluations = n - 1

\* C18: when a call of f does not return, (a) in the first evaluation of a
\* step: the history buffer is as on entry; (b) in the corrector of a step:
\* the buffer is the fully shifted one, entries 0..k-3 the old 1..k-2 and the
\* last two the sample of this step, whatever the iteration; (c) in the
\* builder at point i: entries 0..i-1 hold the samples of points 0..i-1 and
\* the entries from i on are as on entry.  The failed call is the last call
\* of f made: every evaluation before it was made once, none again.
C18_FailureLeavesHistory ==
  pc = "failed" =>
    /\ Failures = 1
    /\ log[Len(log)].op = "raise"
    /\ callee = "steps" /\ Evaluations = 0 => f_history = hist_in
    /\ callee = "steps" /\ Evaluations > 0 =>
         /\ f_history = ShiftedHistory(hist_in, Fresh)
         /\ FailedAt(i + 2)
         /\ i < iterations
    /\ callee = "moulton" => f_history = hist_in /\ FailedAt(i + 1)
    /\ callee = "build" =>
         /\ FailedAt(i + 1)
         /\ \A j \in 0..(STEPS - 1) :
              f_history[j] = IF j < i THEN Call(f, j * h, y_known[j])
                             ELSE hist_in[j]

C18_Witness ==
  /\ pc = "failed"
  /\ callee = "steps"
  /\ Evaluations = 2
  /\ f_history = ShiftedHistory(hist_in, Fresh)
  /\ f_history /= hist_in

-----------------------------------------------------------------------------
\* the derivative sample of abscissa xv, where the caller knows y there
SampleAt(xv) == Call(f, xv, traj[xv])

\* C19 (as stated in the header of the step driver): when a call with
\* abscissa x0 returns whose history on entry held the sample of
\* x0 - (k-1-i)*h at i, f_history[i] holds the sample of x0 - (k-i)*h for
\* i = 0..k-2, wherever that abscissa is one the caller has a value for.
C19_AsStated ==
  Returned_From("steps") /\ rel_in =>
    \A j \in 0..(STEPS - 2) :
       LET xv == x0 - (STEPS - j) * h
       IN  xv \in DOMAIN traj => f_history[j] = SampleAt(xv)

-----------------------------------------------------------------------------
(* A caller that starts from a history buffer it has not initialised and    *)
(* calls the step driver STEPS-1 times in a row, advancing after each call. *)

\* what the buffer may hold on the first call: no value f returns
InitialContents(k) ==
  { [j \in 0..(k - 1) |-> 1000 + j],
    [j \in 0..(k - 1) |-> 0 - 1000 - j] }

InitPopulate ==
  /\ order \in Orders
  /\ f \in Callables
  /\ h \in 1..MaxH
  /\ tolerance = Zero
  /\ iterations \in 0..1
  /\ f_history \in InitialContents(order)
  /\ y_known \in TrajectoryInputs(order)
  /\ traj = [xv \in {j * h : j \in 0..(order - 1)} |-> y_known[xv \div h]]
  /\ x0 = (order - 1) * h
  /\ y = [j \in 0..1 |-> IF j = 0 THEN y_known[order - 1] ELSE Scratch]
  /\ y_bashforth = Scratch
  /\ pc = "idle"
  /\ i = 0
  /\ x = 0
  /\ delta = Zero
  /\ old_estimate = Zero
  /\ ret = 0
  /\ callee = "none"
  /\ calls = 0
  /\ built = FALSE
  /\ hist_in = f_history
  /\ y_in = y
  /\ rel_in = FALSE
  /\ log = <<>>

NextPopulate ==
  \/ Steps_Evaluate_Upto(STEPS - 1)
  \/ Steps_Predict
  \/ Steps_Shift
  \/ Steps_Correct
  \/ Moulton_Delta
  \/ Moulton_Iterate
  \/ Moulton_Return
  \/ Advance

SpecPopulate == InitPopulate /\ [][NextPopulate]_vars

\* the value is the entry j of what the buffer held before the first call
FromInitial(v, j) ==
  \E c \in InitialContents(STEPS) : j \in DOMAIN c /\ v = c[j]

\* the value is one f returned for a point of the trajectory so far
Sampled(v) == \E xv \in DOMAIN traj : v = SampleAt(xv)

-----------------------------------------------------------------------------
(* The calls of Spec with a tolerance of 0.0 or 1.0, for what is read from  *)
(* the accesses a call has logged: which entries it reads and writes, in    *)
(* which order, and what it leaves alone.                                   *)

SpecAccesses ==
  InitWith([k \in Orders |-> Tolerances(k) \ {Dbl(1)}]) /\ [][Next]_vars

-----------------------------------------------------------------------------
(* Build_History followed by the first call of the step driver *)

\* the sample f(x + j*h, y_traj[j]) of the trajectory handed to
\* Build_History, whose x is 0
TrajectorySample(j) == Call(f, j * h, y_known[j])

\* the reads of f_history made so far by the current call, in the order made
HistoryReads == SelectSeq(log, LAMBDA e : e.op = "rd_hist")

\* the n-th event of the log reads an entry of f_history that Build_History
\* or the current call has written before
ReadsWritten(n) ==
  log[n].op = "rd_hist" =>
    \/ built /\ log[n].at <= STEPS - 2
    \/ \E m \in 1..(n - 1) : log[m].op = "wr_hist" /\ log[m].at = log[n].at

\* the first call of the step driver, made after Build_History has returned
FirstStepAfterBuild == built /\ callee = "steps" /\ calls = 1

\* C21: in the first call of the step driver after Build_History, with
\* x0 = x + (k-1)*h and y[0] = y_traj[k-1], the predictor reads at every
\* index j of 0..k-1 the sample f(x + j*h, y_traj[j]); the corrector's delta
\* is SUM_{j=1..k-1} moulton[j]*f(x + (k-j)*h, y_traj[k-j]), its j-th read
\* being of that sample; and every entry read was written before by
\* Build_History or by the call itself.
C21_BootstrapThenStep ==
  FirstStepAfterBuild =>
    /\ pc \notin {"idle", "predict"} =>
         /\ Len(HistoryReads) >= STEPS
         /\ \A j \in 0..(STEPS - 1) :
              /\ HistoryReads[STEPS - j].at = j
              /\ HistoryReads[STEPS - j].val = Dbl(TrajectorySample(j))
    /\ pc \in {"iterate", "break", "ret"} =>
         /\ delta = WeightedSum(moulton_table,
                                [m \in 0..(STEPS - 1) |->
                                   IF m = STEPS - 1 THEN 0
                                   ELSE TrajectorySample(m + 1)], 1)
         /\ Len(HistoryReads) = 3 * STEPS - 2
         /\ \A j \in 1..(STEPS - 1) :
              HistoryReads[2 * STEPS - 1 + j].val =
                Dbl(TrajectorySample(STEPS - j))
    /\ \A n \in 1..Len(log) : ReadsWritten(n)

\* the step after a bootstrap from a trajectory whose samples all differ,
\* over a buffer that held other values before
C21_Witness ==
  /\ FirstStepAfterBuild
  /\ pc = "ret"
  /\ f = "abscissa"
  /\ hist_in[STEPS - 1] /= TrajectorySample(STEPS - 1)
  /\ delta /= Zero
  /\ \A j \in 0..(STEPS - 2) : f_history[j] = TrajectorySample(j + 1)

-----------------------------------------------------------------------------
(* The break of the corrector *)

\* the n-th event of the log is a call of hasConverged that returned 1
ConvergedAt(n) == log[n].op = "conv" /\ log[n].at = 1

\* C22: once hasConverged has returned 1 in a call of the corrector, the
\* call evaluates f no more and writes y[1] no more: the test is the last
\* event of the call, the call is at its break or has returned, and y[1]
\* holds the estimate that was tested, which is the first to have passed.
C22_EarlyStop ==
  pc /= "idle" =>
    \A n \in 1..Len(log) :
       ConvergedAt(n) =>
         /\ n = Len(log)
         /\ pc \in {"break", "ret"}
         /\ y[1] = log[n].val
         /\ FirstConverged(Len(Outcomes))
         /\ pc = "ret" => ret = Len(Outcomes)

\* a call that converged on its second iteration with budget left
C22_Witness ==
  /\ pc = "ret"
  /\ FirstConverged(2)
  /\ iterations > 2
  /\ ConvergedAt(Len(log))
  /\ y[1] = log[Len(log)].val
  /\ y[1] /= y_bashforth

-----------------------------------------------------------------------------
(* The order of events in a call of the step driver *)

\* where the first event `op` is in the log, past its end if there is none
Position(op) ==
  IF \E n \in 1..Len(log) : log[n].op = op
  THEN CHOOSE n \in 1..Len(log) :
         log[n].op = op /\ \A m \in 1..(n - 1) : log[m].op /= op
  ELSE Len(log) + 1

\* the value y[1] holds when the n-th event happens: the one last written
HeldBefore(n, v) ==
  \E m \in 1..(n - 1) :
     /\ log[m] = Ev("wr_y", 1, v)
     /\ \A l \in (m + 1)..(n - 1) : log[l].op /= "wr_y"

\* C23: in a call of the step driver the evaluation of f at (x0, y[0]) comes
\* first, with the read of its argument, and is the only one at x0; the
\* predictor's reads come next, all of the unshifted buffer holding that
\* sample; the shift's reads and writes come after the predictor has
\* returned and before y[1] is set; the corrector's reads come after that,
\* all of the shifted buffer; and every later evaluation of f is at x0 + h
\* and at the value y[1] holds at that moment.
C23_OrderOfEvents ==
  Running("steps") =>
    LET predicted == Position("wr_yb")
        shifted == Position("rd_yb")
    IN  /\ log[1] = Ev("rd_y", 0, y_in[0])
        /\ log[2] = Ev("f", x0, y_in[0])
        /\ log[3] = Ev("wr_hist", STEPS - 1, Dbl(Fresh))
        /\ \A n \in 3..Len(log) :
             /\ log[n].op = "f" =>
                  /\ log[n].at = x0 + h
                  /\ n > shifted
                  /\ HeldBefore(n, log[n].val)
             /\ log[n].op = "rd_hist" /\ n < predicted =>
                  log[n].val = Dbl(HistoryWithFresh[log[n].at])
             /\ log[n].op = "rd_hist" /\ n > shifted =>
                  log[n].val = Dbl(ShiftedHistory(hist_in, Fresh)[log[n].at])
             /\ log[n].op = "wr_hist" /\ n > 3 =>
                  n > predicted /\ n < shifted
             /\ log[n].op = "rd_hist" /\ n > predicted /\ n < shifted =>
                  log[n + 1] = Ev("wr_hist", log[n].at - 1, log[n].val)
        /\ pc /= "predict" =>
             Cardinality({n \in 1..predicted : log[n].op = "rd_hist"}) = STEPS
        /\ pc \in {"iterate", "break", "ret"} =>
             Cardinality({n \in shifted..Len(log) : log[n].op = "rd_hist"})
               = STEPS - 1

\* a step whose corrector evaluated f twice, at two values of y[1], over a
\* buffer that the shift changed
C23_Witness ==
  /\ Returned_From("steps")
  /\ Evaluations = 3
  /\ y_bashforth /= old_estimate
  /\ HistoryWithFresh /= ShiftedHistory(hist_in, Fresh)
  /\ hist_in[0] /= hist_in[1]

-----------------------------------------------------------------------------
(* What the predictor and the corrector write *)

\* the events a step of the running function adds to the log
Added == SubSeq(log', Len(log) + 1, Len(log'))

Writes == {"wr_hist", "wr_y", "wr_yb"}

\* C24: the predictor writes nothing, its caller storing the value returned
\* in *y_bashforth, and leaves f_history and y as they are; the corrector
\* writes y[1] and nothing else, and leaves f_history, y[0] and *y_bashforth
\* as they are, in its summing loop, in every iteration and on return.
C24_FrameOfPredictorAndCorrector ==
  [][ /\ pc = "predict" =>
           /\ f_history' = f_history
           /\ y' = y
           /\ \A n \in 1..Len(Added) :
                Added[n].op \in Writes =>
                  n = Len(Added) /\ Added[n].op = "wr_yb"
           /\ LET made == Adams_Bashforth_Steps(y[0], h, f_history).log
              IN  \A n \in 1..Len(made) : made[n].op \notin Writes
      /\ pc \in {"moulton", "iterate", "break"} =>
           /\ f_history' = f_history
           /\ y'[0] = y[0]
           /\ y_bashforth' = y_bashforth
           /\ \A n \in 1..Len(Added) :
                Added[n].op \in Writes =>
                  Added[n].op = "wr_y" /\ Added[n].at = 1
    ]_vars

\* the corrector called by itself has moved y[1] twice and has returned,
\* over a buffer whose entries differ
C24_Witness ==
  /\ Returned_From("moulton")
  /\ Bodies >= 2
  /\ y[1] /= y_in[1]
  /\ y[1] /= old_estimate
  /\ y[0] = y_in[0]
  /\ f_history = hist_in
  /\ f_history[0] /= f_history[1]

\* the indices of f_history the current call has written
WrittenEntries == {log[n].at : n \in {m \in 1..Len(log) : log[m].op = "wr_hist"}}

\* the history builder is running or has just returned
Building == callee = "build" /\ calls = 0

\* C25: a call of the step driver never writes y[0]: what it writes is
\* y[1], *y_bashforth and entries of f_history, all k of them by the time it
\* returns; the history builder writes entries of f_history, those below
\* k-1, and neither y[] nor the trajectory it is handed nor *y_bashforth.
C25_FrameOfDriverAndBuilder ==
  /\ Running("steps") =>
       /\ y[0] = y_in[0]
       /\ \A n \in 1..Len(log) :
            log[n].op \in Writes =>
              \/ log[n].op = "wr_y" /\ log[n].at = 1
              \/ log[n].op = "wr_yb"
              \/ log[n].op = "wr_hist" /\ log[n].at \in 0..(STEPS - 1)
       /\ pc = "ret" => WrittenEntries = 0..(STEPS - 1)
  /\ Building =>
       /\ y = y_in
       /\ y_bashforth = Scratch
       /\ \A j \in 0..(STEPS - 1) : y_known[j] = traj[j * h]
       /\ \A n \in 1..Len(log) :
            log[n].op \in Writes => log[n].op = "wr_hist"
       /\ WrittenEntries \subseteq 0..(STEPS - 2)
       /\ built => WrittenEntries = 0..(STEPS - 2)

\* a step that has changed y[1], *y_bashforth and the buffer, after a
\* bootstrap that changed the buffer
C25_Witness ==
  /\ Returned_From("steps")
  /\ built
  /\ y[1] /= y_in[1]
  /\ y_bashforth /= Scratch
  /\ f_history /= hist_in
  /\ y[0] = y_in[0]
  /\ WrittenEntries = 0..(STEPS - 1)

-----------------------------------------------------------------------------
(* Array bounds *)

\* the indices at which the current call has accessed f_history
HistoryAccesses ==
  {log[n].at : n \in {m \in 1..Len(log) : log[m].op \in {"rd_hist", "wr_hist"}}}

\* the indices at which it has accessed y[], or the trajectory handed to
\* Build_History as its y[]
YAccesses ==
  {log[n].at :
     n \in {m \in 1..Len(log) : log[m].op \in {"rd_y", "wr_y", "rd_known"}}}

\* the first k-1 entries of the buffer, as an array of k-1 entries
ShortHistory == [j \in 0..(STEPS - 2) |-> f_history[j]]

\* C26: the step driver with its predictor accesses f_history within
\* 0..k-1, index k-1 included, and y within 0..1; the corrector called alone
\* accesses f_history within 0..k-2 and forms the same delta from an array
\* of k-1 entries, and y within 0..1; the history builder accesses f_history
\* and y below k.
C26_ArrayBounds ==
  LET history == HistoryAccesses
      ys == YAccesses
  IN  /\ Running("steps") =>
           /\ history \subseteq 0..(STEPS - 1)
           /\ ys \subseteq 0..1
           /\ STEPS - 1 \in history
      /\ Running("moulton") =>
           /\ history \subseteq 0..(STEPS - 2)
           /\ ys \subseteq 0..1
           /\ pc \in {"iterate", "break", "ret"} =>
                /\ history = 0..(STEPS - 2)
                /\ MoultonLoop(Locals(1, MoultonStart), ShortHistory).delta
                     = delta
      /\ Building =>
           /\ history \subseteq 0..(STEPS - 1)
           /\ ys \subseteq 0..(STEPS - 1)
           /\ built => history = 0..(STEPS - 2)

\* the corrector called alone has returned after an iteration, having read
\* every entry below k-1 of a buffer whose last entry is like no other
C26_Witness ==
  /\ Returned_From("moulton")
  /\ Bodies >= 1
  /\ HistoryAccesses = 0..(STEPS - 2)
  /\ YAccesses = 0..1
  /\ \A j \in 0..(STEPS - 2) : f_history[j] /= f_history[STEPS - 1]
  /\ delta /= Zero

-----------------------------------------------------------------------------
(* One algorithm of order k, of which the three files are instances *)

\* what an access is, apart from the value: its kind and its index, the
\* abscissa for a call of f, the outcome for a call of hasConverged
Skeleton(lg) == [n \in 1..Len(lg) |-> <<lg[n].op, lg[n].at>>]

\* *y_bashforth = y[0] + h*divisor*SUM_j bashforth[j]*f_history[k-1-j]
GenericPredict(k) ==
  <<<<"rd_y", 0>>>> \o [n \in 1..k |-> <<"rd_hist", k - n>>]
                    \o <<<<"wr_yb", 0>>>>

\* f_history[j] = f_history[j+1], j = 0..k-2
GenericShift(k) ==
  [n \in 1..(2 * (k - 1)) |->
     IF n % 2 = 1 THEN <<"rd_hist", (n + 1) \div 2>>
     ELSE <<"wr_hist", (n \div 2) - 1>>]

\* delta = SUM_{j=1..k-1} moulton[j]*f_history[k-1-j]
GenericDelta(k) == [j \in 1..(k - 1) |-> <<"rd_hist", k - 1 - j>>]

\* m passes of old = y[1]; y[1] = y[0] + ...f(x, y[1])...; test, the test
\* returning what it returned in the call at hand
GenericIterations(m) ==
  [n \in 1..(5 * m) |->
     CASE n % 5 = 1 -> <<"rd_y", 1>>
       [] n % 5 = 2 -> <<"f", x>>
       [] n % 5 = 3 -> <<"rd_y", 0>>
       [] n % 5 = 4 -> <<"wr_y", 1>>
       [] n % 5 = 0 -> <<"conv", Outcomes[n \div 5].at>>]

\* f_history[j] = f(x + j*h, y[j]), j = 0..m-1
GenericBuild(m) ==
  [n \in 1..(3 * m) |->
     CASE n % 3 = 1 -> <<"rd_known", (n - 1) \div 3>>
       [] n % 3 = 2 -> <<"f", ((n - 1) \div 3) * h>>
       [] n % 3 = 0 -> <<"wr_hist", (n - 1) \div 3>>]

\* the accesses of the order k step driver up to where the call is:
\* f_history[k-1] = f(x0, y[0]), the predictor, the shift, y[1] = *y_bashforth
GenericSteps(k) ==
  <<<<"rd_y", 0>>, <<"f", x0>>, <<"wr_hist", k - 1>>>>
    \o (IF pc = "predict" THEN <<>> ELSE GenericPredict(k))
    \o (IF pc \in {"predict", "shift"} THEN <<>> ELSE GenericShift(k))
    \o (IF pc \in {"predict", "shift", "correct"} THEN <<>>
        ELSE <<<<"rd_yb", 0>>, <<"wr_y", 1>>>>)

\* the accesses of the order k corrector up to where the call is
GenericMoulton(k) ==
  IF pc \in {"iterate", "break", "ret"}
  THEN GenericDelta(k) \o GenericIterations(Len(Outcomes))
  ELSE <<>>

\* C27: in each of the three files the tables have k entries, and every
\* call of the step driver, of the corrector and of the history builder
\* makes, up to every point of its run, the accesses of the one order k
\* algorithm, in the same order and at the same indices; the outcomes of
\* hasConverged are those of the one predicate applied to the estimate
\* before and the estimate after.
C27_OneAlgorithm ==
  /\ Len(bashforth_table) = order
  /\ Len(moulton_table) = order
  /\ Running("steps") =>
       Skeleton(log) = GenericSteps(order) \o GenericMoulton(order)
  /\ Running("moulton") => Skeleton(log) = GenericMoulton(order)
  /\ Building =>
       Skeleton(log) = GenericBuild(IF pc = "build" THEN i ELSE order - 1)
  /\ pc \in {"iterate", "break"} /\ Len(Outcomes) > 0 =>
       LET n == Len(log)
       IN  /\ log[n].op = "conv"
           /\ (log[n].at = 1) <=>
                 hasConverged(log[n - 4].val, log[n].val, tolerance)

\* a step of the order 20 file that has made two iterations
C27_Witness ==
  /\ order = 20
  /\ Returned_From("steps")
  /\ Len(Outcomes) = 2
  /\ Len(log) = 3 + 22 + 38 + 2 + 19 + 10
  /\ Skeleton(log) = GenericSteps(20) \o GenericMoulton(20)

-----------------------------------------------------------------------------
(* Calls with a tolerance that is zero or negative *)

NonPositive(k) ==
  LET one == CASE k = 12 -> reciprocal_12 [] k = 16 -> reciprocal_16
               [] k = 20 -> reciprocal_20
  IN  {Zero, Neg(<<1>>), Num(TRUE, one.mag)}

SpecNonPositive ==
  InitWith([k \in Orders |-> NonPositive(k)]) /\ [][Next]_vars

\* C28: with tolerance <= 0.0 hasConverged returns 0 for every pair, equal
\* pairs included; no call of it in the corrector has returned 1, and a
\* call of the corrector or of the step driver with budget N >= 0 returns
\* N + 1 after N iterations, also when the estimate has stopped moving.
C28_NonPositiveTolerance ==
  /\ ~Less(Zero, tolerance)
  /\ pc = "ret" =>
       LET around == {y[0], y[1], old_estimate, Zero, Scale(One, -3)}
       IN  \A a \in around : \A b \in around : ~hasConverged(a, b, tolerance)
  /\ NeverConverged
  /\ pc /= "break"
  /\ pc = "ret" /\ iterations >= 0 =>
       /\ ret = iterations + 1
       /\ Bodies = iterations

\* a call with a negative tolerance whose last two iterations left the same
\* estimate
C28_Witness ==
  /\ pc = "ret"
  /\ Less(tolerance, Zero)
  /\ iterations >= 2
  /\ Bodies = iterations
  /\ y[1] = old_estimate
  /\ ret = iterations + 1

-----------------------------------------------------------------------------
(* The last entries of the buffer after a step *)

\* C29 (as amended): after a call of the step driver f_history[k-2] and
\* f_history[k-1] both hold the f(x0, y[0]) of the call, and entries 0..k-3
\* are the entries 1..k-2 on entry; the content of index k-1 on entry is
\* overwritten before any read of that index, so that its value is in the
\* buffer afterwards only as the value of another entry or of the sample:
\* never when it differs from them, and always, at index k-3, in a call
\* that follows another, whose entries k-2 and k-1 are equal on entry.
C29_LastEntries ==
  Returned_From("steps") =>
    /\ f_history[STEPS - 2] = Fresh
    /\ f_history[STEPS - 1] = Fresh
    /\ \A j \in 0..(STEPS - 3) : f_history[j] = hist_in[j + 1]
    /\ log[3] = Ev("wr_hist", STEPS - 1, Dbl(Fresh))
    /\ \A n \in 1..2 : log[n].op /= "rd_hist"
    /\ (/\ Fresh /= hist_in[STEPS - 1]
        /\ \A j \in 1..(STEPS - 2) : hist_in[j] /= hist_in[STEPS - 1])
         => \A j \in 0..(STEPS - 1) : f_history[j] /= hist_in[STEPS - 1]
    /\ calls >= 2 =>
         /\ hist_in[STEPS - 2] = hist_in[STEPS - 1]
         /\ f_history[STEPS - 3] = hist_in[STEPS - 1]

\* a second step, whose sample differs from the one before it
C29_Witness ==
  /\ Returned_From("steps")
  /\ calls = 2
  /\ f_history[STEPS - 2] = Fresh
  /\ f_history[STEPS - 1] = Fresh
  /\ Fresh /= hist_in[STEPS - 1]
  /\ f_history[STEPS - 3] = hist_in[STEPS - 1]

\* C29 as stated: the value held at index k-1 on entry is in no entry of
\* the buffer afterwards
C29_AsStated ==
  Returned_From("steps") =>
    /\ f_history[STEPS - 2] = Fresh
    /\ f_history[STEPS - 1] = Fresh
    /\ \A j \in 0..(STEPS - 1) : f_history[j] /= hist_in[STEPS - 1]

-----------------------------------------------------------------------------
(* What the step driver is handed in the locations it overwrites: the entry *)
(* f_history[k-1], y[1] and *y_bashforth.                                    *)

ScratchInputs ==
  { [last |-> 0, y1 |-> Scratch, y_bashforth |-> Scratch],
    [last |-> 9, y1 |-> Zero, y_bashforth |-> Dbl(-2)],
    [last |-> -4, y1 |-> Scale(One, 3), y_bashforth |-> Zero] }

\* one call of the step driver, with any of these in the three locations
InitScratch ==
  /\ order \in Orders
  /\ f \in Callables
  /\ h \in 1..MaxH
  /\ tolerance \in Tolerances(order)
  /\ iterations \in 0..MaxIterations
  /\ y_known \in TrajectoryInputs(order)
  /\ traj = [xv \in {j * h : j \in 0..(order - 1)} |-> y_known[xv \div h]]
  /\ x0 = (order - 1) * h
  /\ \E s \in ScratchInputs :
        /\ f_history = [j \in 0..(order - 1) |->
                          IF j = order - 1 THEN s.last ELSE j + 1]
        /\ y = [j \in 0..1 |-> IF j = 0 THEN y_known[order - 1] ELSE s.y1]
        /\ y_bashforth = s.y_bashforth
  /\ pc = "idle"
  /\ i = 0
  /\ x = 0
  /\ delta = Zero
  /\ old_estimate = Zero
  /\ ret = 0
  /\ callee = "none"
  /\ calls = 0
  /\ built = FALSE
  /\ hist_in = f_history
  /\ y_in = y
  /\ rel_in = FALSE
  /\ log = <<>>

NextScratch ==
  \/ Steps_Evaluate_Upto(1)
  \/ Steps_Predict
  \/ Steps_Shift
  \/ Steps_Correct
  \/ Moulton_Delta
  \/ Moulton_Iterate
  \/ Moulton_Return

SpecScratch == InitScratch /\ [][NextScratch]_vars

\* the body of the step driver, lines 117-125, applied to the arrays histv
\* and yv and to the cell ybv as the caller hands them over: what it leaves
\* in them and what it returns
RunStep(histv, yv, ybv) ==
  LET stored == [histv EXCEPT ![STEPS - 1] = Call(f, x0, yv[0])]
      predicted == Adams_Bashforth_Steps(yv[0], h, stored).value
      shifted == ShiftLoop(0, stored, <<>>).hist
      started == [yv EXCEPT ![1] = predicted]
      m == MoultonAlone(0, started[0], started[1], x0 + h,
                        MoultonLoop(Locals(1, MoultonStart), shifted).delta,
                        iterations)
  IN  [y |-> [started EXCEPT ![1] = m.y1], y_bashforth |-> predicted,
       f_history |-> shifted, ret |-> m.ret]

\* C30: a call of the step driver leaves in y[1], *y_bashforth and the
\* buffer, and returns, what the call leaves and returns on the same f,
\* y[0], x0, h, tolerance, iterations and f_history[0..k-2] with any other
\* content of f_history[k-1], y[1] and *y_bashforth on entry.
C30_ScratchIndependence ==
  Returned_From("steps") =>
    \A s \in ScratchInputs :
       RunStep([hist_in EXCEPT ![STEPS - 1] = s.last],
               [y_in EXCEPT ![1] = s.y1], s.y_bashforth)
         = [y |-> y, y_bashforth |-> y_bashforth, f_history |-> f_history,
            ret |-> ret]

\* a call that was handed other contents than the first of the three, and
\* has overwritten each of them
C30_Witness ==
  /\ Returned_From("steps")
  /\ hist_in[STEPS - 1] = 9
  /\ y_in[1] = Zero
  /\ iterations >= 2
  /\ f_history[STEPS - 1] /= 9
  /\ y[1] /= Zero
  /\ y_bashforth /= Dbl(-2)
  /\ y[1] /= y_bashforth

=============================================================================
